---- MODULE Spec2Model ----
(***************************************************************************)
(* A model of app/fetch.py of reg_digest_agent: the fetch/extract/persist  *)
(* pipeline run by fetch_all, with its per-host limiter (HOST_LIMITER),    *)
(* the retrying GET (_http_get), listing discovery (process_source) and    *)
(* the per-candidate extraction (handle).                                  *)
(*                                                                         *)
(* One asyncio event loop runs the coroutines; an action of this module is *)
(* the code one coroutine runs between two of its suspension points        *)
(* (semaphore acquire, client.get, asyncio.sleep, gather).                 *)
(*                                                                         *)
(* A URL is a sequence of tokens <<scheme, netloc, t1, t2, ...>>, the      *)
(* tokens after the netloc being pieces of the path, query and fragment    *)
(* ("/news", "/amp", "/", "?amp", "&amp", "#top").  String tests of the    *)
(* code (endswith, "x in u", rstrip) are made on the tokens.               *)
(***************************************************************************)
EXTENDS Integers, Sequences, FiniteSets, TLC

VARIABLES
    topo,    \* which fetch_all runs exist and which source each task processes
    locks,   \* HOST_LIMITER._locks: netloc -> free permits of its semaphore
    sem,     \* per fetch_all run: free permits of its Semaphore(FETCH_CONCURRENCY)
    client,  \* per run: "open" | "closed" (the httpx.AsyncClient of the run)
    fetch,   \* per run: "running" | "finished" | "raised" (fetch_all itself)
    src,     \* per task: the process_source coroutine
    cand,    \* per task: the handle coroutines, one per candidate link
    sink,    \* the articles table: the URLs upserted (its rows under SpecUpsert)
    faults,  \* how many more failures the environment may inject
    call     \* one call of a function of fetch.py on its own: arguments and result

vars == <<topo, locks, sem, client, fetch, src, cand, sink, faults, call>>

----------------------------------------------------------------------------
(* Tunables (fetch.py:46-52).  FETCH_CONCURRENCY is read from the          *)
(* environment (default 6); the model runs with FETCH_CONCURRENCY=2 so     *)
(* that the candidates of the registry below exceed it.  The others are    *)
(* the defaults.                                                            *)

FETCH_CONCURRENCY == 2
PER_HOST_CONCURRENCY == 2
HTTP_RETRIES == 3
\* HTTP_BACKOFF_BASE = 0.8, as the fraction BACKOFF_NUM / BACKOFF_DEN
BACKOFF_NUM == 8
BACKOFF_DEN == 10
\* max_links when the registry gives none
DEFAULT_MAX_LINKS == 12
MIN_TEXT_LENGTH == 600
MAX_AGE_DAYS == 7
\* recipients per call of resend.Emails.send
BATCH == 100

RETRY_STATUSES == {429, 500, 502, 503, 504}

\* Bounds of the model: how many request chains the environment disturbs in a
\* behaviour of Spec, of SpecListing and of SpecFair
MaxFaults == 2
MaxFaultsListing == 1
MaxFaultsFair == 1
\* the longest list of links _clean_links is called on
MaxLinksIn == 4
\* the most anchors of a listing page _parse_listing_html is called on, apart
\* from the one long page
MaxAnchors == 3
\* the number of upsert_article calls in a behaviour of SpecUpsert
MaxUpserts == 3
\* the number of requests inside "async with sem" at once under SpecLimiter
MaxHeld == 3
\* the number of subscribers fetch_active_subscribers returns, at most
MaxSubs == 2
\* the longest to_list send_html_email is called with
MaxRecipients == 250
\* the clock of SpecWebhook: ticks per second, the cooldown the environment
\* sets in minutes, and how many ticks past one cooldown the clock runs
TicksPerSecond == 2
AUTO_RUN_COOLDOWN_MIN == 1
MaxLate == 6

\* sync_from_fillout: the page size it asks for, and the largest number of
\* full pages of submissions waiting at Fillout
PAGE_LIMIT == 150
MaxFullPages == 2

\* The statuses the servers of the model answer with
Statuses == {200, 403, 404, 429, 503}

----------------------------------------------------------------------------
(* Sequences helpers *)

Range(s) == {s[k] : k \in 1..Len(s)}

Last(s) == s[Len(s)]

Pow(b, e) == IF e = 0 THEN 1 ELSE LET RECURSIVE P(_)
                                      P(n) == IF n = 0 THEN 1 ELSE b * P(n - 1)
                                  IN P(e)

----------------------------------------------------------------------------
(* URLs *)

NoUrl == <<>>

\* urlparse(url).netloc
Netloc(u) == u[2]

\* u.rstrip("/")
RECURSIVE RStripSlash(_)
RStripSlash(u) ==
    IF Len(u) > 2 /\ Last(u) = "/" THEN RStripSlash(SubSeq(u, 1, Len(u) - 1)) ELSE u

QueryTokens == {"?amp", "?output=amp", "?q=1"}

\* "?" in u
HasQuery(u) == \E k \in 3..Len(u) : u[k] \in QueryTokens

HasToken(u, tok) == \E k \in 3..Len(u) : u[k] = tok

\* _amp_variants
_amp_variants(u) ==
    (IF Last(RStripSlash(u)) # "/amp" THEN <<RStripSlash(u) \o <<"/amp">>>> ELSE <<>>)
    \o (IF ~HasToken(u, "?amp")
        THEN <<u \o <<IF HasQuery(u) THEN "&amp" ELSE "?amp">>>> ELSE <<>>)
    \o (IF ~HasToken(u, "?output=amp")
        THEN <<u \o <<IF HasQuery(u) THEN "&output=amp" ELSE "?output=amp">>>> ELSE <<>>)

----------------------------------------------------------------------------
(* The source registry (config/sources.yaml after merged()): the input of  *)
(* fetch_all.  Two sources on two netlocs; the first has a fallback URL    *)
(* that already ends in /amp.                                               *)

SOURCES == <<
    [name |-> "s1",
     url |-> <<"https:", "a.com", "/news">>,
     fallback_urls |-> << <<"https:", "a.com", "/press", "/amp">> >>,
     same_host_only |-> TRUE, allow_substr |-> <<>>, deny_substr |-> <<>>,
     max_links |-> 2, last_week_only |-> TRUE, pdf_chase |-> TRUE],
    [name |-> "s2",
     url |-> <<"https:", "b.org", "/updates", "?q=1">>,
     fallback_urls |-> <<>>,
     same_host_only |-> TRUE, allow_substr |-> << <<"/doc">> >>, deny_substr |-> <<>>,
     max_links |-> 1, last_week_only |-> TRUE, pdf_chase |-> TRUE] >>

\* urls = [cfg["url"]] + cfg.get("fallback_urls", [])
Urls(cfg) == <<cfg.url>> \o cfg.fallback_urls

----------------------------------------------------------------------------
(* Listing pages and _parse_listing_html.  A page is the sequence of its   *)
(* anchors in document order, each an href and whether it lies under an    *)
(* <article> element.                                                       *)

Schemes == {"https:", "http:"}
FragTokens == {"#top", "#s2"}
NON_EN_PATH_SEGMENTS == {"/fr", "/de"}
\* the entries of DENY_ALWAYS that are not NON_EN_PATH_SEGMENTS
DENY_ALWAYS == {<<"/page-not-found">>, <<"/404">>}
drop_suffixes == {"/en", "/news", "/policies", "/about", "/contact", "/events"}

\* the pages a listing request may be answered with, by the body's kind
Page(kind) ==
    CASE kind = "good" ->
           << [href |-> <<"/about">>, article |-> FALSE],
              [href |-> <<"/doc", "/item1">>, article |-> TRUE],
              [href |-> <<"/doc", "/item1", "#top">>, article |-> FALSE],
              [href |-> <<"/fr", "/doc", "/item2">>, article |-> FALSE],
              [href |-> <<"https:", "c.net", "/doc", "/x">>, article |-> FALSE],
              [href |-> <<"/doc", "/item3">>, article |-> FALSE],
              [href |-> <<"/doc", "/item4">>, article |-> FALSE] >>
      [] kind = "bad" ->
           << [href |-> <<"/doc", "/item1">>, article |-> TRUE],
              [href |-> <<"http:", "[">>, article |-> FALSE] >>
      [] OTHER -> <<>>

\* urljoin raises ValueError on an href with an unbalanced bracket in its netloc
UrljoinRaises(href) == Len(href) >= 2 /\ href[1] \in Schemes /\ href[2] = "["

\* urljoin(base_url, href) for absolute, path-absolute and fragment-only hrefs
urljoin(base, href) ==
    IF href # <<>> /\ href[1] \in Schemes THEN href
    ELSE IF href # <<>> /\ href[1] \in FragTokens THEN base \o href
    ELSE <<base[1], base[2]>> \o href

\* u.split("#")[0]
RECURSIVE StripFragment(_)
StripFragment(u) ==
    IF u = <<>> \/ Head(u) \in FragTokens THEN <<>>
    ELSE <<Head(u)>> \o StripFragment(Tail(u))

\* (mutant) the fragment is cut but repeated links are kept
_clean_links_keeps_repeats(links) ==
    LET cut == [k \in 1..Len(links) |-> StripFragment(links[k])]
        nonEmpty(u) == u # <<>>
    IN SelectSeq(cut, nonEmpty)

\* _clean_links
RECURSIVE CleanFrom(_, _)
CleanFrom(links, out) ==
    IF links = <<>> THEN out
    ELSE LET u == StripFragment(Head(links))
         IN CleanFrom(Tail(links),
                      IF u # <<>> /\ u \notin Range(out) THEN Append(out, u) ELSE out)

_clean_links(links) == CleanFrom(links, <<>>)

\* (mutant) links to any host pass
_same_host_any(url, base) == TRUE

\* _same_host
_same_host(url, base) == Netloc(url) = Netloc(base)

\* tokens that do not start with "/"
NonPathTokens == QueryTokens \cup FragTokens \cup {"&amp", "&output=amp"}

\* _is_non_english_url: a segment such as "/fr/" occurs in the URL, that is
\* the token "/fr" followed by a token that starts with "/"
_is_non_english_url(u) ==
    \E k \in 1..(Len(u) - 1) :
        u[k] \in NON_EN_PATH_SEGMENTS /\ u[k + 1] \notin NonPathTokens

\* "pat in u" for a pattern of tokens
Contains(u, pat) ==
    \E k \in 0..(Len(u) - Len(pat)) : SubSeq(u, k + 1, k + Len(pat)) = pat

ParseRaises(page_kind) ==
    \E k \in 1..Len(Page(page_kind)) : UrljoinRaises(Page(page_kind)[k].href)

\* a2: the URLs of all anchors, in document order
AllAnchors(page, base_url) == [k \in 1..Len(page) |-> urljoin(base_url, page[k].href)]

\* (mutant) the anchors under <article> are not put first
AnchorsInDocumentOrder(page, base_url) == AllAnchors(page, base_url)

\* a1 + a2: the URLs of the anchors under <article> first, then of all anchors
Anchors(page, base_url) ==
    LET isArt(a) == a.article
    IN AllAnchors(SelectSeq(page, isArt), base_url) \o AllAnchors(page, base_url)

\* (mutant) one link more than max_links is kept
TruncateOneMore(links, n) ==
    SubSeq(links, 1, IF Len(links) < n + 1 THEN Len(links) ELSE n + 1)

\* links[:max_links]
Truncate(links, n) == SubSeq(links, 1, IF Len(links) < n THEN Len(links) ELSE n)

\* merged(s): {**defaults, **s}, with max_links = 12 when neither gives it
merged(defaults, s) ==
    LET c == s @@ defaults
    IN IF "max_links" \in DOMAIN c THEN c ELSE c @@ [max_links |-> DEFAULT_MAX_LINKS]

_parse_listing_html(page, base_url, cfg) ==
    LET l0 == _clean_links(Anchors(page, base_url))
        sameHost(u) == _same_host(u, base_url)
        l1 == IF cfg.same_host_only THEN SelectSeq(l0, sameHost) ELSE l0
        english(u) == ~_is_non_english_url(u)
        l2 == SelectSeq(l1, english)
        allowed(u) == \E k \in 1..Len(cfg.allow_substr) : Contains(u, cfg.allow_substr[k])
        l3 == IF cfg.allow_substr # <<>> THEN SelectSeq(l2, allowed) ELSE l2
        notDenied(u) == /\ \A k \in 1..Len(cfg.deny_substr) : ~Contains(u, cfg.deny_substr[k])
                        /\ \A d \in DENY_ALWAYS : ~Contains(u, d)
                        /\ ~_is_non_english_url(u)
        l4 == SelectSeq(l3, notDenied)
        notLanding(u) == Last(RStripSlash(u)) \notin drop_suffixes
        l5 == SelectSeq(l4, notLanding)
    IN Truncate(l5, cfg.max_links)

----------------------------------------------------------------------------
(* _http_get: one request chain.  st is where the coroutine is suspended:  *)
(* "acquire" in "async with sem", "get" in "await client.get(...)",        *)
(* "sleep" in "await _backoff_sleep(i + 1)"; i is the loop variable.       *)
(* attempts counts the client.get calls, delays lists the backoff delays   *)
(* slept, last is the outcome of the latest attempt.                        *)

NoOutcome == [kind |-> "none", status |-> 0, body |-> "none"]
Exc == [kind |-> "exc", status |-> 0, body |-> "none"]
Resp(status, body) == [kind |-> "resp", status |-> status, body |-> body]

NoChain == [st |-> "none", url |-> NoUrl, sec |-> FALSE, i |-> 0,
            attempts |-> 0, last |-> NoOutcome, delays |-> <<>>]

NewChain(url, sec) == [NoChain EXCEPT !.st = "acquire", !.url = url, !.sec = sec]

\* the permit of the host semaphore is held inside "async with sem"
Holding(ch) == ch.st \in {"get", "sleep"}

\* _backoff_sleep: (HTTP_BACKOFF_BASE ** retry_idx) * (1.0 + 0.25 * (retry_idx + 1)),
\* in units of 1 / (4 * BACKOFF_DEN ** (HTTP_RETRIES + 2)) seconds
_backoff_sleep(retry_idx) ==
    Pow(BACKOFF_NUM, retry_idx) * Pow(BACKOFF_DEN, HTTP_RETRIES + 2 - retry_idx)
        * (4 + (retry_idx + 1))

\* (mutant) every error status is retried
RetriedAnyError(o) == o.kind = "exc" \/ (o.kind = "resp" /\ o.status >= 400)

\* r.status_code in (429, 500, 502, 503, 504), or client.get raised
Retried(o) == o.kind = "exc" \/ (o.kind = "resp" /\ o.status \in RETRY_STATUSES)

\* the attempt failed: last_exc is set and the coroutine sleeps _backoff_sleep(i + 1)
Failed(ch, o) ==
    [ch EXCEPT !.st = "sleep", !.last = o,
               !.delays = Append(@, _backoff_sleep(ch.i + 1))]

\* client.get is called for attempt ch.i; a closed client raises at once
Issue(ch, closed) ==
    LET c1 == [ch EXCEPT !.attempts = @ + 1]
    IN IF closed THEN Failed(c1, Exc) ELSE [c1 EXCEPT !.st = "get"]

\* (mutant) the loop runs once more: range(HTTP_RETRIES + 2)
MoreAttemptsOffByOne(ch) == ch.i < HTTP_RETRIES + 1

\* for i in range(HTTP_RETRIES + 1): after the sleep of iteration i, is there another?
MoreAttempts(ch) == ch.i < HTTP_RETRIES

\* (mutant) the limiter is keyed by the origin, scheme and netloc
hostWithScheme(url) == <<url[1], Netloc(url)>>

\* (mutant) the limiter is keyed by the whole URL
hostWholeUrl(url) == url

\* HostLimiter.limiter: the key of the URL's semaphore
host(url) == Netloc(url)

\* (mutant) every request gets a new semaphore
LimiterAlwaysNew(l, url) ==
    (host(url) :> PER_HOST_CONCURRENCY) @@ l

\* HostLimiter.limiter: create the semaphore on the first request to the host
Limiter(l, url) ==
    IF host(url) \in DOMAIN l THEN l ELSE l @@ (host(url) :> PER_HOST_CONCURRENCY)

\* (mutant) the permit is given back before the backoff sleep
DuringBackoffReleased(l, url) == [l EXCEPT ![host(url)] = @ + 1]

\* await _backoff_sleep(i + 1) is inside "async with sem": the permit is kept
DuringBackoff(l, url) == l

\* (mutant) leaving "async with sem" keeps the permit
ReleaseNever(l, url) == l

\* "async with sem" of _http_get is left, by return or by raise
Release(l, url) == [l EXCEPT ![host(url)] = @ + 1]

\* asyncio.Semaphore: a permit of the URL's host semaphore is free
HostFree(l, url) == l[host(url)] > 0

----------------------------------------------------------------------------
(* process_source: listing discovery *)

\* "if base_html": None and the empty string are false
Truthy(html) == html \notin {"None", "empty"}

InitSrc == [pc |-> "start", ui |-> 0, phase |-> "primary", ai |-> 0,
            base_html |-> "None", base_url |-> NoUrl, chain |-> NoChain,
            links |-> <<>>, first200 |-> NoUrl]

\* r = await _http_get(client, u, use_secondary_headers=...)
CallGet(s, url, sec) ==
    [s EXCEPT !.chain = NewChain(url, sec)]

\* after the for loop: the listing failed, or the links are parsed and handled
AfterLoop(s, cfg) ==
    LET s0 == [s EXCEPT !.chain = NoChain]
    IN IF ~Truthy(s.base_html) \/ s.base_url = NoUrl
       THEN [s0 EXCEPT !.pc = "returned"]
       ELSE IF ParseRaises(s.base_html)
       THEN [s0 EXCEPT !.pc = "raised"]
       ELSE [s0 EXCEPT !.pc = "gather",
                       !.links = _parse_listing_html(Page(s.base_html), s.base_url, cfg)]

\* the next iteration of "for u in urls", or the end of the loop
NextUrl(s, cfg) ==
    IF s.ui < Len(Urls(cfg))
    THEN CallGet([s EXCEPT !.pc = "listing", !.ui = @ + 1, !.phase = "primary", !.ai = 0],
                 Urls(cfg)[s.ui + 1], FALSE)
    ELSE AfterLoop(s, cfg)

\* the next iteration of "for au in _amp_variants(u)", or "if base_html: break"
AmpNext(s, cfg) ==
    LET variants == _amp_variants(Urls(cfg)[s.ui])
    IN IF s.ai < Len(variants)
       THEN CallGet([s EXCEPT !.phase = "amp", !.ai = @ + 1], variants[s.ai + 1], TRUE)
       ELSE IF Truthy(s.base_html) THEN AfterLoop(s, cfg) ELSE NextUrl(s, cfg)

\* ghost: the URL of the first listing request answered with status 200
Note200(s, o) ==
    IF o.status = 200 /\ s.first200 = NoUrl THEN [s EXCEPT !.first200 = s.chain.url] ELSE s

\* _http_get returned the response o to process_source
ListingReturn(s0, cfg, o) ==
    LET s == Note200(s0, o)
        u == Urls(cfg)[s.ui]
    IN CASE s.phase = "primary" ->
              IF o.status = 200
              THEN AfterLoop([s EXCEPT !.base_html = o.body, !.base_url = u], cfg)
              ELSE IF o.status = 403
              THEN CallGet([s EXCEPT !.phase = "secondary"], u, TRUE)
              ELSE NextUrl(s, cfg)
         [] s.phase = "secondary" ->
              IF o.status = 200
              THEN AfterLoop([s EXCEPT !.base_html = o.body, !.base_url = u], cfg)
              ELSE AmpNext(s, cfg)
         [] s.phase = "amp" ->
              IF o.status = 200
              THEN LET s1 == [s EXCEPT !.base_html = o.body,
                                       !.base_url = _amp_variants(u)[s.ai]]
                   IN IF Truthy(o.body) THEN AfterLoop(s1, cfg) ELSE NextUrl(s1, cfg)
              ELSE AmpNext(s, cfg)

\* (mutant) the exception of _http_get is not caught in process_source
ListingRaisePropagates(s, cfg) == [s EXCEPT !.pc = "raised", !.chain = NoChain]

\* _http_get raised: both except clauses log and continue with the next URL
ListingRaise(s, cfg) == NextUrl(s, cfg)

----------------------------------------------------------------------------
(* handle and _fetch_article_page: one candidate link *)

\* _find_first_pdf_link: the first .pdf link of the article page
PdfUrl(u) == <<u[1], u[2], "/file.pdf">>

\* (mutant) handle calls _http_get before it enters the global semaphore
NewCandHostFirst(u) ==
    [pc |-> "sem", url |-> u, phase |-> "article", chain |-> NewChain(u, FALSE)]

NewCand(u) == [pc |-> "sem", url |-> u, phase |-> "article", chain |-> NoChain]

Outcomes == {"persisted", "skipped", "failed"}

\* the candidate is done, with a result or by an exception that left handle
Over(c) == c.pc \in Outcomes \cup {"raised", "cancelled"}

\* (mutant) handle has no try/except: the exception leaves the coroutine
HandleLetsOut(c) == [c EXCEPT !.pc = "raised", !.chain = NoChain]

\* except Exception as e: logger.error(...)
HandleOnException(c) == [c EXCEPT !.pc = "failed", !.chain = NoChain]

\* upsert_article(item): the sink stores the record or raises
Upserted(c, sinkOk) ==
    IF sinkOk THEN [c EXCEPT !.pc = "persisted", !.chain = NoChain]
    ELSE HandleOnException(c)

\* _http_get returned the response o to _fetch_article_page
HandleReturn(c, o, sinkOk) ==
    CASE c.phase = "article" ->
           IF o.status # 200 THEN [c EXCEPT !.pc = "failed", !.chain = NoChain]
           ELSE IF o.body = "skip" THEN [c EXCEPT !.pc = "skipped", !.chain = NoChain]
           ELSE IF o.body = "needpdf"
           THEN [c EXCEPT !.phase = "pdf", !.chain = NewChain(PdfUrl(c.url), FALSE)]
           ELSE Upserted(c, sinkOk)
      [] c.phase = "pdf" ->
           IF o.status = 200 /\ o.body = "pdf" THEN Upserted(c, sinkOk)
           ELSE [c EXCEPT !.pc = "skipped", !.chain = NoChain]

\* _http_get raised inside handle's try
HandleRaise(c) == HandleOnException(c)

----------------------------------------------------------------------------
(* _fetch_article_page as a function of what its helpers find in the       *)
(* article response and, when it chases the PDF, in the PDF response.  A   *)
(* date is known or not; a known date is its age in days at the moment of  *)
(* the recency check, tagged with the source it was taken from.             *)

None == [known |-> FALSE, age |-> 0]

At(age) == [known |-> TRUE, age |-> age]

From(dt, source) ==
    [known |-> dt.known, age |-> dt.age, from |-> IF dt.known THEN source ELSE "none"]

\* (mutant) every date, resolved or not, counts as recent
_is_recent_always(dt) == TRUE

\* (mutant) an unresolved date counts as recent
_is_recent_or_undated(dt) == ~dt.known \/ dt.age <= MAX_AGE_DAYS

\* _is_recent: dt is not None and dt >= now - MAX_AGE_DAYS
_is_recent(dt) == dt.known /\ dt.age <= MAX_AGE_DAYS

\* _guess_published_at_from_html: meta tags, then JSON-LD, then visible
\* "Month DD, YYYY" text
_guess_published_at_from_html(page) ==
    IF page.meta.known THEN From(page.meta, "meta")
    ELSE IF page.ld.known THEN From(page.ld, "ld")
    ELSE From(page.visible, "visible")

\* (mutant) the header is never parsed
_published_from_headers_never(resp) == None

\* _published_from_headers: the Last-Modified header of a response
_published_from_headers(resp) == resp.last_modified

\* _date_from_url_path: /YYYY/MM/DD or YYYY-MM-DD in the URL
_date_from_url_path(page) == page.url_date

\* (mutant) the header date is taken on every host
HeaderDateAlways(page) == TRUE

\* host not in EVERGREEN_HEADER_DOMAINS
HeaderDateAllowed(page) == ~page.evergreen

\* dt of _fetch_article_page: the date of the HTML, else, off the evergreen
\* hosts only, the Last-Modified header and then the date in the URL
ResolveDate(page) ==
    LET dt == _guess_published_at_from_html(page)
    IN IF ~dt.known /\ HeaderDateAllowed(page)
       THEN IF _published_from_headers(page).known
            THEN From(_published_from_headers(page), "header")
            ELSE From(_date_from_url_path(page), "url")
       ELSE dt

\* published_at = dt or _now_utc()
Now == [known |-> TRUE, age |-> 0, from |-> "now"]

\* len((text + "\n\n" + pdf_text.strip()).strip())
Joined(textlen, pdflen) == IF textlen = 0 THEN pdflen ELSE textlen + 2 + pdflen

\* return None, for the reason why ("raised": no return, the exception of the
\* PDF request leaves the function)
Skip(why, dt) ==
    [kept |-> FALSE, why |-> why, dt |-> dt, published_at |-> From(None, "none"),
     textlen |-> 0, pdf_requested |-> FALSE]

\* (mutant) every declared language passes
_html_lang_any(page) == TRUE

\* _html_lang_is_english: the lang attribute of <html>, as its subtags, is
\* absent or starts with "en"
_html_lang_is_english(page) == page.lang = <<>> \/ page.lang[1] = "en"

\* (mutant) only an empty text is too short
TooShortOnlyEmpty(textlen) == textlen = 0

\* if len(text) < MIN_TEXT_LENGTH: return None
TooShort(textlen) == textlen < MIN_TEXT_LENGTH

_fetch_article_page(page, cfg) ==
    IF page.status # 200 THEN Skip("status", From(None, "none"))
    ELSE IF ~_html_lang_is_english(page) THEN Skip("lang", From(None, "none"))
    ELSE
      LET dt == ResolveDate(page)
      IN IF cfg.last_week_only /\ ~_is_recent(dt) THEN Skip("recency", dt)
         ELSE
           LET pr == page.pdf
               chase == /\ page.textlen < MIN_TEXT_LENGTH
                        /\ cfg.pdf_chase
                        /\ pr.found
               gotText == /\ chase
                          /\ pr.status = 200 /\ pr.is_pdf
                          /\ pr.textlen > 0
               lm == _published_from_headers(pr)
               appended == gotText /\ (~cfg.last_week_only \/ _is_recent(lm))
               textlen == IF appended THEN Joined(page.textlen, pr.textlen)
                          ELSE page.textlen
               published_at ==
                   IF appended /\ ~dt.known /\ lm.known /\ HeaderDateAllowed(page)
                   THEN From(lm, "pdf_header")
                   ELSE IF dt.known THEN dt ELSE Now
           IN IF chase /\ pr.raises
              THEN [Skip("raised", dt) EXCEPT !.pdf_requested = TRUE]
              ELSE IF TooShort(textlen)
              THEN [Skip("short", dt) EXCEPT !.pdf_requested = chase]
              ELSE [kept |-> TRUE, why |-> "none", dt |-> dt,
                    published_at |-> published_at, textlen |-> textlen,
                    pdf_requested |-> chase]

\* _sha1: the digest of a string, as a term over the string
_sha1(s) == [sha1 |-> s]

\* (mutant) the digest is taken of the text
ItemHashOfText(art) ==
    [url |-> art.url, title |-> art.title, raw_text |-> art.raw_text,
     published_at |-> art.published_at, hash |-> _sha1(art.raw_text)]

\* item of handle: the record that goes to upsert_article
Item(art) ==
    [url |-> art.url, title |-> art.title, raw_text |-> art.raw_text,
     published_at |-> art.published_at, hash |-> _sha1(art.url)]

\* handle(u) once _fetch_article_page is over with res: nothing is sent when
\* it raised (logged as failed) or returned None (skipped); else the item is
\* sent, and upsert_article stores it (sinkOk) or raises
handle(u, res, sinkOk) ==
    IF res.why = "raised" THEN [outcome |-> "failed", sent |-> <<>>]
    ELSE IF ~res.kept THEN [outcome |-> "skipped", sent |-> <<>>]
    ELSE [outcome |-> IF sinkOk THEN "persisted" ELSE "failed",
          sent |-> <<Item([url |-> u, title |-> "Untitled", raw_text |-> res.textlen,
                           published_at |-> res.published_at])>>]

----------------------------------------------------------------------------
(* upsert_article and the articles table behind it.  The table is a set of *)
(* rows; the POST names the conflict column and the resolution, and the    *)
(* table answers as these ask.                                              *)

\* _iso: None stays None, a datetime becomes its ISO string
_iso(dt) == IF dt.known THEN [iso |-> dt.age] ELSE [null |-> TRUE]

\* payload of upsert_article
Payload(item) ==
    [url |-> item.url, title |-> item.title, raw_text |-> item.raw_text,
     published_at |-> _iso(item.published_at), hash |-> item.hash]

\* POST /articles?on_conflict=<column> with Prefer: resolution=<resolution>:
\* a row that conflicts with the new one on the column is merged (replaced by
\* the new values), or kept and the new one ignored; without a resolution the
\* conflict is an error and the table stays as it is
Post(table, row, on_conflict, resolution) ==
    LET conflicts == IF on_conflict = "url" THEN {r \in table : r.url = row.url}
                     ELSE {}
    IN IF conflicts = {} THEN table \cup {row}
       ELSE IF resolution = "merge-duplicates" THEN (table \ conflicts) \cup {row}
       ELSE table

\* (mutant) the first record of a URL stays
upsert_article_ignore(table, item, ok) ==
    IF ok THEN Post(table, Payload(item), "url", "ignore-duplicates") ELSE table

\* upsert_article: the table after the call; r.raise_for_status() raises when
\* the request failed (~ok), and the table is as before
upsert_article(table, item, ok) ==
    IF ok THEN Post(table, Payload(item), "url", "merge-duplicates") ELSE table

----------------------------------------------------------------------------
(* The tasks.  Task t is one process_source coroutine: it belongs to the   *)
(* fetch_all run topo.runOf[t] and processes the source topo.cfgOf[t].     *)
(* Every run loads the same registry.  topo.free is an assumption on the   *)
(* environment: the tasks whose listing requests it answers without charge. *)

\* one run over the two sources of the registry
OneRun == [runOf |-> <<1, 1>>, cfgOf |-> <<1, 2>>, free |-> {}]
\* two overlapping runs (two /run-now triggers) over a registry of one source
TwoRuns == [runOf |-> <<1, 2>>, cfgOf |-> <<1, 1>>, free |-> {}]
\* the same, with the listing discovery of the first task answered in any way
Topologies == {OneRun, TwoRuns}
ListingTopologies == {[tp EXCEPT !.free = {1}] : tp \in Topologies}

Tasks == DOMAIN topo.runOf
Runs == Range(topo.runOf)
TasksOf(r) == {t \in Tasks : topo.runOf[t] = r}
Cfg(t) == SOURCES[topo.cfgOf[t]]
Closed(t) == client[topo.runOf[t]] = "closed"

ListingBodies == {"good", "bad", "empty"}
ArticleBodies == {"ok", "skip", "needpdf"}
PdfBodies == {"pdf", "other"}

\* what one attempt can end with: a response or an exception
OutcomesOf(bodies) ==
    {Exc} \cup {Resp(st, "none") : st \in Statuses \ {200}}
          \cup {Resp(200, b) : b \in bodies}

\* The environment is charged for every request chain it does not answer with
\* the plain page at once: for the first outcome of the chain that is not the
\* plain 200 response.  The later attempts of a chain that failed are free.
PlainBodies == {"good", "ok", "pdf"}

Cost(o, ch) ==
    IF ch.i > 0 \/ (o.kind = "resp" /\ o.status = 200 /\ o.body \in PlainBodies)
    THEN 0 ELSE 1

\* The listing requests of the tasks in topo.free are answered in any way
\* without charge.
SrcCost(t, o) == IF t \in topo.free THEN 0 ELSE Cost(o, src[t].chain)

\* no function is called on its own in the behaviours of the pipeline
NoCall == [fn |-> "none", done |-> TRUE]

TypeOK ==
    /\ topo \in Topologies \cup ListingTopologies
    /\ \A n \in DOMAIN locks : locks[n] \in 0..PER_HOST_CONCURRENCY
    /\ \A r \in Runs : sem[r] \in 0..FETCH_CONCURRENCY
    /\ \A r \in Runs : client[r] \in {"open", "closed"}
    /\ \A r \in Runs : fetch[r] \in {"running", "finished", "raised"}
    /\ \A t \in Tasks : src[t].pc \in {"start", "listing", "gather", "returned",
                                       "raised", "cancelled"}
    /\ \A t \in Tasks : \A j \in DOMAIN cand[t] :
          cand[t][j].pc \in {"sem", "body"} \cup Outcomes \cup {"raised", "cancelled"}
    /\ faults \in Nat

InitPipeline(tp, budget) ==
    /\ topo = tp
    /\ locks = <<>>
    /\ sem = [r \in Range(tp.runOf) |-> FETCH_CONCURRENCY]
    /\ client = [r \in Range(tp.runOf) |-> "open"]
    /\ fetch = [r \in Range(tp.runOf) |-> "running"]
    /\ src = [t \in DOMAIN tp.runOf |-> InitSrc]
    /\ cand = [t \in DOMAIN tp.runOf |-> <<>>]
    /\ sink = {}
    /\ faults = budget

InitWith(tp, budget) == InitPipeline(tp, budget) /\ call = NoCall

Init == \E tp \in Topologies : InitWith(tp, MaxFaults)

InitListing == \E tp \in ListingTopologies : InitWith(tp, MaxFaultsListing)

----------------------------------------------------------------------------
(* Steps of process_source *)

\* _http_get was just called (ch is a NewChain, or NoChain when nothing was
\* called): the limiter of the URL is looked up; asyncio.Semaphore.acquire takes
\* a free permit without suspending, so the first client.get is called in the
\* same step; the coroutine suspends in "async with sem" only when none is free
Called(l, ch, closed) ==
    IF ch.st # "acquire" THEN [locks |-> l, chain |-> ch]
    ELSE LET l1 == Limiter(l, ch.url)
         IN IF HostFree(l1, ch.url)
            THEN [locks |-> [l1 EXCEPT ![host(ch.url)] = @ - 1],
                  chain |-> Issue(ch, closed)]
            ELSE [locks |-> l1, chain |-> ch]

\* handle(u) for u in links: the coroutines gather starts
Spawn(s) == [k \in 1..Len(s.links) |-> NewCand(s.links[k])]

\* process_source runs on to s2 (with the _http_get it calls next, if any),
\* from the semaphores l
SrcContinue(t, s2, l) ==
    LET e == Called(l, s2.chain, Closed(t))
    IN /\ src' = [src EXCEPT ![t] = [s2 EXCEPT !.chain = e.chain]]
       /\ locks' = e.locks
       /\ cand' = [cand EXCEPT ![t] = IF s2.pc = "gather" THEN Spawn(s2) ELSE @]

\* process_source starts: the first _http_get of the for loop is called
SrcStart(t) ==
    /\ src[t].pc = "start"
    /\ SrcContinue(t, NextUrl(src[t], Cfg(t)), locks)
    /\ UNCHANGED <<call, topo, sem, client, fetch, sink, faults>>

\* async with sem, after waiting: the permit is taken, the first client.get called
SrcAcquire(t) ==
    /\ src[t].chain.st = "acquire"
    /\ HostFree(locks, src[t].chain.url)
    /\ locks' = [locks EXCEPT ![host(src[t].chain.url)] = @ - 1]
    /\ src' = [src EXCEPT ![t].chain = Issue(@, Closed(t))]
    /\ UNCHANGED <<call, topo, sem, client, fetch, cand, sink, faults>>

\* client.get ends with the outcome o: the attempt is retried after a sleep, or
\* the response is returned ("async with sem" is left) and process_source goes on
SrcRespond(t, o) ==
    /\ src[t].chain.st = "get"
    /\ SrcCost(t, o) <= faults
    /\ faults' = faults - SrcCost(t, o)
    /\ IF Retried(o)
       THEN /\ src' = [src EXCEPT ![t].chain = Failed(@, o)]
            /\ locks' = DuringBackoff(locks, src[t].chain.url)
            /\ UNCHANGED cand
       ELSE SrcContinue(t, ListingReturn(src[t], Cfg(t), o),
                        Release(locks, src[t].chain.url))
    /\ UNCHANGED <<call, topo, sem, client, fetch, sink>>

\* the backoff sleep ends: the next attempt, or raise last_exc
SrcWake(t) ==
    /\ src[t].chain.st = "sleep"
    /\ IF MoreAttempts(src[t].chain)
       THEN /\ src' = [src EXCEPT ![t].chain = Issue([@ EXCEPT !.i = @ + 1], Closed(t))]
            /\ UNCHANGED <<locks, cand>>
       ELSE SrcContinue(t, ListingRaise(src[t], Cfg(t)),
                        Release(locks, src[t].chain.url))
    /\ UNCHANGED <<call, topo, sem, client, fetch, sink, faults>>

\* await asyncio.gather(*(handle(u) for u in links)): the first exception of a
\* handle is raised in process_source; otherwise it returns when all are done
SrcGather(t) ==
    /\ src[t].pc = "gather"
    /\ \/ \E j \in DOMAIN cand[t] : cand[t][j].pc = "raised"
       \/ \A j \in DOMAIN cand[t] : Over(cand[t][j])
    /\ src' = [src EXCEPT ![t].pc =
                  IF \E j \in DOMAIN cand[t] : cand[t][j].pc = "raised"
                  THEN "raised" ELSE "returned"]
    /\ UNCHANGED <<call, topo, locks, sem, client, fetch, cand, sink, faults>>

----------------------------------------------------------------------------
(* Steps of handle *)

\* handle runs on to c2 (with the _http_get it calls next, if any), from the
\* semaphores l; leaving "async with sem" gives the global permit back
HandleContinue(t, j, c2, l) ==
    LET e == Called(l, c2.chain, Closed(t))
    IN /\ cand' = [cand EXCEPT ![t][j] = [c2 EXCEPT !.chain = e.chain]]
       /\ locks' = e.locks
       /\ sem' = IF cand[t][j].pc = "body" /\ Over(c2)
                 THEN [sem EXCEPT ![topo.runOf[t]] = @ + 1] ELSE sem
       /\ sink' = IF c2.pc = "persisted" THEN sink \cup {c2.url} ELSE sink

\* (mutant) handle does not wait for the global semaphore
SemFreeAlways(r) == TRUE

\* asyncio.Semaphore: a permit of the run's global semaphore is free
SemFree(r) == sem[r] > 0

\* async with sem: the global permit is taken, _fetch_article_page calls _http_get
HandleEnter(t, j) ==
    /\ j \in DOMAIN cand[t]
    /\ cand[t][j].pc = "sem"
    /\ SemFree(topo.runOf[t])
    /\ LET e == Called(locks, NewChain(cand[t][j].url, FALSE), Closed(t))
       IN /\ cand' = [cand EXCEPT ![t][j] = [@ EXCEPT !.pc = "body", !.chain = e.chain]]
          /\ locks' = e.locks
    /\ sem' = [sem EXCEPT ![topo.runOf[t]] = @ - 1]
    /\ UNCHANGED <<call, topo, client, fetch, src, sink, faults>>

\* async with sem of _http_get, after waiting
HandleAcquire(t, j) ==
    /\ j \in DOMAIN cand[t]
    /\ cand[t][j].chain.st = "acquire"
    /\ HostFree(locks, cand[t][j].chain.url)
    /\ locks' = [locks EXCEPT ![host(cand[t][j].chain.url)] = @ - 1]
    /\ cand' = [cand EXCEPT ![t][j].chain = Issue(@, Closed(t))]
    /\ UNCHANGED <<call, topo, sem, client, fetch, src, sink, faults>>

\* client.get ends with the outcome o; if the record reaches upsert_article,
\* the sink stores it (sinkOk) or raises
HandleRespond(t, j, o, sinkOk) ==
    /\ j \in DOMAIN cand[t]
    /\ cand[t][j].chain.st = "get"
    /\ LET c == cand[t][j]
           upsertFails == ~Retried(o) /\ ~sinkOk
       IN /\ upsertFails => HandleReturn(c, o, TRUE).pc = "persisted"
          /\ Cost(o, c.chain) + (IF upsertFails THEN 1 ELSE 0) <= faults
          /\ faults' = faults - (Cost(o, c.chain) + (IF upsertFails THEN 1 ELSE 0))
          /\ IF Retried(o)
             THEN /\ sinkOk
                  /\ cand' = [cand EXCEPT ![t][j].chain = Failed(@, o)]
                  /\ locks' = DuringBackoff(locks, c.chain.url)
                  /\ UNCHANGED <<sem, sink>>
             ELSE HandleContinue(t, j, HandleReturn(c, o, sinkOk),
                                 Release(locks, c.chain.url))
    /\ UNCHANGED <<call, topo, client, fetch, src>>

\* the backoff sleep ends: the next attempt, or raise last_exc
HandleWake(t, j) ==
    /\ j \in DOMAIN cand[t]
    /\ cand[t][j].chain.st = "sleep"
    /\ LET c == cand[t][j]
       IN IF MoreAttempts(c.chain)
          THEN /\ cand' = [cand EXCEPT ![t][j].chain =
                              Issue([@ EXCEPT !.i = @ + 1], Closed(t))]
               /\ UNCHANGED <<locks, sem, sink>>
          ELSE HandleContinue(t, j, HandleRaise(c), Release(locks, c.chain.url))
    /\ UNCHANGED <<call, topo, client, fetch, src, faults>>

----------------------------------------------------------------------------
(* Steps of fetch_all *)

\* await asyncio.gather(*(process_source(...) ...)) inside "async with client":
\* the first exception of a process_source leaves fetch_all, otherwise it
\* returns when all sources are done; either way the client is closed
FetchGather(r) ==
    /\ r \in Runs
    /\ fetch[r] = "running"
    /\ \/ \E t \in TasksOf(r) : src[t].pc = "raised"
       \/ \A t \in TasksOf(r) : src[t].pc = "returned"
    /\ fetch' = [fetch EXCEPT ![r] =
                    IF \E t \in TasksOf(r) : src[t].pc = "raised"
                    THEN "raised" ELSE "finished"]
    /\ client' = [client EXCEPT ![r] = "closed"]
    /\ UNCHANGED <<call, topo, locks, sem, src, cand, sink, faults>>

SrcLive(t) == src[t].pc \in {"start", "listing", "gather"}

\* asyncio.run (pipeline.run_digest) cancels the tasks fetch_all left behind:
\* each gets CancelledError at its suspension point and releases its permits
CancelRest(r) ==
    /\ r \in Runs
    /\ fetch[r] = "raised"
    /\ \E t \in TasksOf(r) : SrcLive(t) \/ \E j \in DOMAIN cand[t] : ~Over(cand[t][j])
    /\ src' = [t \in Tasks |->
                 IF t \in TasksOf(r) /\ SrcLive(t)
                 THEN [src[t] EXCEPT !.pc = "cancelled", !.chain = NoChain]
                 ELSE src[t]]
    /\ cand' = [t \in Tasks |->
                  IF t \in TasksOf(r)
                  THEN [j \in DOMAIN cand[t] |->
                           IF Over(cand[t][j]) THEN cand[t][j]
                           ELSE [cand[t][j] EXCEPT !.pc = "cancelled", !.chain = NoChain]]
                  ELSE cand[t]]
    /\ locks' = [n \in DOMAIN locks |->
                   locks[n]
                   + Cardinality({t \in TasksOf(r) :
                                     Holding(src[t].chain) /\ host(src[t].chain.url) = n})
                   + Cardinality({tj \in UNION {{<<t, j>> : j \in DOMAIN cand[t]} :
                                                    t \in TasksOf(r)} :
                                     /\ Holding(cand[tj[1]][tj[2]].chain)
                                     /\ host(cand[tj[1]][tj[2]].chain.url) = n})]
    /\ sem' = [sem EXCEPT ![r] = FETCH_CONCURRENCY]
    /\ UNCHANGED <<call, topo, client, fetch, sink, faults>>

----------------------------------------------------------------------------

Next ==
    \/ \E t \in Tasks : SrcStart(t)
    \/ \E t \in Tasks : SrcAcquire(t)
    \/ \E t \in Tasks : \E o \in OutcomesOf(ListingBodies) : SrcRespond(t, o)
    \/ \E t \in Tasks : SrcWake(t)
    \/ \E t \in Tasks : SrcGather(t)
    \/ \E t \in Tasks : \E j \in DOMAIN cand[t] : HandleEnter(t, j)
    \/ \E t \in Tasks : \E j \in DOMAIN cand[t] : HandleAcquire(t, j)
    \/ \E t \in Tasks : \E j \in DOMAIN cand[t] :
          \E o \in OutcomesOf(IF cand[t][j].phase = "pdf"
                              THEN PdfBodies ELSE ArticleBodies) :
             \E sinkOk \in BOOLEAN : HandleRespond(t, j, o, sinkOk)
    \/ \E t \in Tasks : \E j \in DOMAIN cand[t] : HandleWake(t, j)
    \/ \E r \in Runs : FetchGather(r)
    \/ \E r \in Runs : CancelRest(r)

Spec == Init /\ [][Next]_vars

SpecListing == InitListing /\ [][Next]_vars

InitFair == \E tp \in Topologies : InitWith(tp, MaxFaultsFair)

\* the steps of Next other than the end of a listing request
NextExceptSrcRespond ==
    \/ \E t \in Tasks : SrcStart(t)
    \/ \E t \in Tasks : SrcAcquire(t)
    \/ \E t \in Tasks : SrcWake(t)
    \/ \E t \in Tasks : SrcGather(t)
    \/ \E t \in Tasks : \E j \in DOMAIN cand[t] : HandleEnter(t, j)
    \/ \E t \in Tasks : \E j \in DOMAIN cand[t] : HandleAcquire(t, j)
    \/ \E t \in Tasks : \E j \in DOMAIN cand[t] :
          \E o \in OutcomesOf(IF cand[t][j].phase = "pdf"
                              THEN PdfBodies ELSE ArticleBodies) :
             \E sinkOk \in BOOLEAN : HandleRespond(t, j, o, sinkOk)
    \/ \E t \in Tasks : \E j \in DOMAIN cand[t] : HandleWake(t, j)
    \/ \E r \in Runs : FetchGather(r)
    \/ \E r \in Runs : CancelRest(r)

\* Fair scheduling by the event loop, with every client.get (HTTP_TIMEOUT) and
\* every sink call returning or raising: a coroutine that can run a step
\* eventually runs one, and no listing request stays unanswered for ever.
SpecFair ==
    /\ InitFair /\ [][Next]_vars
    /\ WF_vars(NextExceptSrcRespond)
    /\ []<>(\A t \in 1..2 : src[t].chain.st # "get")

----------------------------------------------------------------------------
(* Calls of single functions of fetch.py on arguments drawn from bounded    *)
(* sets: call holds the function's name, its arguments and, once the call  *)
(* is done, its result.  The pipeline is idle in these behaviours.          *)

Idle == UNCHANGED <<topo, locks, sem, client, fetch, src, cand, sink, faults>>

\* sequences over S of length at most n
SeqsUpTo(S, n) == UNION {[1..k -> S] : k \in 0..n}

\* the links _clean_links is called on: with and without fragment, a bare
\* fragment and the empty string
CleanLinksArgs ==
    {<<"https:", "a.com", "/x">>, <<"https:", "a.com", "/x", "#top">>,
     <<"https:", "a.com", "/x", "#s2">>, <<"https:", "a.com", "/y">>,
     <<"https:", "a.com", "/y", "#top">>, <<"#top">>, <<>>}

InitCleanLinks ==
    /\ InitPipeline(OneRun, 0)
    /\ call \in {[fn |-> "_clean_links", done |-> FALSE, links |-> l, res |-> <<>>] :
                   l \in SeqsUpTo(CleanLinksArgs, MaxLinksIn)}

CallCleanLinks ==
    /\ call.fn = "_clean_links" /\ ~call.done
    /\ call' = [call EXCEPT !.done = TRUE, !.res = _clean_links(call.links)]
    /\ Idle

NextCleanLinks == CallCleanLinks

SpecCleanLinks == InitCleanLinks /\ [][NextCleanLinks]_vars

\* the anchors of the listing pages _parse_listing_html is called on
ParseAnchors ==
    {[href |-> <<"/doc", "/item1">>, article |-> b] : b \in BOOLEAN}
    \cup {[href |-> <<"/doc", "/item2">>, article |-> b] : b \in BOOLEAN}
    \cup {[href |-> <<"/press", "/item4">>, article |-> b] : b \in BOOLEAN}
    \cup {[href |-> h, article |-> FALSE] :
             h \in {<<"/doc", "/item1", "#top">>, <<"/fr", "/doc", "/item3">>,
                    <<"https:", "c.net", "/doc", "/x">>, <<"/about">>,
                    <<"/doc", "/404">>, <<"/doc", "/news", "/">>}}

\* a page of more anchors than the default max_links
LongPage ==
    [k \in 1..(DEFAULT_MAX_LINKS + 2) |->
        [href |-> <<"/doc", "/n" \o ToString(k)>>, article |-> (k = 3)]]

\* the defaults and the sources of the registries
ParseDefaults == [same_host_only |-> TRUE, allow_substr |-> <<>>, deny_substr |-> <<>>]

ParseSources ==
    {[allow_substr |-> << <<"/doc">> >>, max_links |-> 2],
     [allow_substr |-> << <<"/doc">>, <<"/press">> >>,
      deny_substr |-> << <<"/item2">> >>, max_links |-> 3],
     [same_host_only |-> FALSE, max_links |-> 1],
     [allow_substr |-> << <<"/doc">> >>]}

InitParseListing ==
    /\ InitPipeline(OneRun, 0)
    /\ call \in {[fn |-> "_parse_listing_html", done |-> FALSE, page |-> pg,
                   base_url |-> <<"https:", "a.com", "/news">>,
                   cfg |-> merged(ParseDefaults, sc), res |-> <<>>] :
                     pg \in SeqsUpTo(ParseAnchors, MaxAnchors) \cup {LongPage},
                     sc \in ParseSources}

CallParseListing ==
    /\ call.fn = "_parse_listing_html" /\ ~call.done
    /\ call' = [call EXCEPT !.done = TRUE,
                            !.res = _parse_listing_html(call.page, call.base_url, call.cfg)]
    /\ Idle

NextParseListing == CallParseListing

SpecParseListing == InitParseListing /\ [][NextParseListing]_vars

\* the dates a helper finds: none, one inside and one outside MAX_AGE_DAYS
Dates == {None, At(MAX_AGE_DAYS - 1), At(MAX_AGE_DAYS + 1)}

\* the PDF responses: no .pdf link on the page, a request that raises after
\* its retries, a 404, a response that is no PDF, a PDF with 3000, 300 or no
\* characters of text (none also when pdf_extract_text raises)
NoPdf == [found |-> FALSE, raises |-> FALSE, status |-> 0, is_pdf |-> FALSE,
          textlen |-> 0, last_modified |-> None]

PdfResponses ==
    {NoPdf,
     [NoPdf EXCEPT !.found = TRUE, !.raises = TRUE],
     [NoPdf EXCEPT !.found = TRUE, !.status = 404],
     [NoPdf EXCEPT !.found = TRUE, !.status = 200],
     [NoPdf EXCEPT !.found = TRUE, !.status = 200, !.is_pdf = TRUE,
                   !.last_modified = At(MAX_AGE_DAYS - 1)],
     [NoPdf EXCEPT !.found = TRUE, !.status = 200, !.is_pdf = TRUE, !.textlen = 300,
                   !.last_modified = At(MAX_AGE_DAYS - 1)]}
    \cup {[NoPdf EXCEPT !.found = TRUE, !.status = 200, !.is_pdf = TRUE,
                        !.textlen = 3000, !.last_modified = d] : d \in Dates}

\* the article responses with status 200 and an English page
EnglishPages ==
    [status : {200}, lang : {<<>>}, meta : Dates, ld : {None, At(MAX_AGE_DAYS - 1)},
     visible : {None, At(MAX_AGE_DAYS - 1)}, last_modified : Dates, url_date : Dates,
     evergreen : BOOLEAN, textlen : {200, 700}, pdf : PdfResponses]

\* and pages with another status or a declared language, which fail any
\* number of the gates at once
OtherPages ==
    [status : {200, 404}, lang : {<<>>, <<"en">>, <<"en", "-GB">>, <<"fr">>},
     meta : Dates, ld : {None}, visible : {None}, last_modified : {None},
     url_date : {None}, evergreen : {FALSE}, textlen : {200, 700},
     pdf : {NoPdf, [NoPdf EXCEPT !.found = TRUE, !.status = 200, !.is_pdf = TRUE,
                                 !.textlen = 3000,
                                 !.last_modified = At(MAX_AGE_DAYS - 1)]}]

ArticleCfgs == [last_week_only : BOOLEAN, pdf_chase : BOOLEAN]

InitFetchArticle ==
    /\ InitPipeline(OneRun, 0)
    /\ call \in {[fn |-> "_fetch_article_page", done |-> FALSE, page |-> pg, cfg |-> cf,
                   res |-> Skip("none", From(None, "none")),
                   outcome |-> "pending", sent |-> <<>>] :
                     pg \in EnglishPages \cup OtherPages, cf \in ArticleCfgs}

CallFetchArticle ==
    /\ call.fn = "_fetch_article_page" /\ ~call.done
    /\ call' = [call EXCEPT !.done = TRUE,
                            !.res = _fetch_article_page(call.page, call.cfg)]
    /\ Idle

\* the URL of the article: on an evergreen host or not
ArticleUrl(page) ==
    IF page.evergreen THEN "https://www.iso.org/doc" ELSE "https://a.com/doc"

\* handle takes what _fetch_article_page gave
HandleArticle(sinkOk) ==
    /\ call.fn = "_fetch_article_page" /\ call.done /\ call.outcome = "pending"
    /\ LET h == handle(ArticleUrl(call.page), call.res, sinkOk)
       IN call' = [call EXCEPT !.outcome = h.outcome, !.sent = h.sent]
    /\ Idle

\* the articles handle upserts one after the other: two URLs, two titles, two
\* texts and two dates
UpsertArts ==
    [url : {"https://a.com/x", "https://a.com/y"}, title : {"T1", "T2"},
     raw_text : {"body1", "body2"},
     published_at : {From(At(1), "meta"), From(At(2), "meta")}]

InitUpsert ==
    /\ InitPipeline(OneRun, 0)
    /\ call = [fn |-> "upsert_article", sent |-> <<>>]

\* handle builds the item of art and calls upsert_article, which stores it
\* (ok) or raises; call.sent keeps the items and how each call ended
CallUpsert(art, ok) ==
    /\ call.fn = "upsert_article"
    /\ Len(call.sent) < MaxUpserts
    /\ sink' = upsert_article(sink, Item(art), ok)
    /\ call' = [call EXCEPT !.sent = Append(@, [item |-> Item(art), ok |-> ok])]
    /\ UNCHANGED <<topo, locks, sem, client, fetch, src, cand, faults>>

NextUpsert == \E art \in UpsertArts, ok \in BOOLEAN : CallUpsert(art, ok)

SpecUpsert == InitUpsert /\ [][NextUpsert]_vars

\* the URLs requested under SpecLimiter: two of one origin that differ in path
\* and query, one of the same host under the other scheme, one of another host
LimiterUrls ==
    {<<"https:", "a.com", "/x">>, <<"https:", "a.com", "/y", "?q=1">>,
     <<"http:", "a.com", "/x">>, <<"https:", "b.org", "/x">>}

InitLimiter ==
    /\ InitPipeline(OneRun, 0)
    /\ call = [fn |-> "limiter", held |-> <<>>, seen |-> {}]

\* _http_get(url) asks HOST_LIMITER.limiter(url) and enters "async with sem"
\* when a permit is free; else it waits outside
LimiterEnter(u) ==
    /\ call.fn = "limiter"
    /\ Len(call.held) < MaxHeld
    /\ LET l1 == Limiter(locks, u)
       IN IF HostFree(l1, u)
          THEN /\ locks' = [l1 EXCEPT ![host(u)] = @ - 1]
               /\ call' = [call EXCEPT !.held = Append(@, u), !.seen = @ \cup {u}]
          ELSE /\ locks' = l1
               /\ call' = [call EXCEPT !.seen = @ \cup {u}]
    /\ UNCHANGED <<topo, sem, client, fetch, src, cand, sink, faults>>

\* the k-th request inside "async with sem" leaves it
LimiterExit(k) ==
    /\ call.fn = "limiter"
    /\ k \in 1..Len(call.held)
    /\ locks' = Release(locks, call.held[k])
    /\ call' = [call EXCEPT !.held = SubSeq(@, 1, k - 1) \o SubSeq(@, k + 1, Len(@))]
    /\ UNCHANGED <<topo, sem, client, fetch, src, cand, sink, faults>>

NextLimiter ==
    \/ \E u \in LimiterUrls : LimiterEnter(u)
    \/ \E k \in 1..MaxHeld : LimiterExit(k)

SpecLimiter == InitLimiter /\ [][NextLimiter]_vars

\* run_digest_async.  Two runs of the process overlap (two triggers of the
\* API, whose runs are tasks of one event loop).  A run is at the step pc it
\* calls next; log is the steps it has called so far.  Every step may raise,
\* which ends the run in the except of run_digest_async.
DigestRuns == {1, 2}

DigestSteps == <<"sync", "fetch", "load", "summarize", "render", "save",
                 "subscribers", "send", "delivery">>

\* (mutant) the email goes out before the digest is saved
StepAfterSendFirst(run) ==
    CASE run.pc = "sync" -> "fetch"
      [] run.pc = "fetch" -> "load"
      [] run.pc = "load" -> IF run.items = 0 THEN "render" ELSE "summarize"
      [] run.pc = "summarize" -> "render"
      [] run.pc = "render" -> "subscribers"
      [] run.pc = "subscribers" -> "send"
      [] run.pc = "send" -> "save"
      [] run.pc = "save" -> IF run.subs = 0 THEN "done" ELSE "delivery"
      [] run.pc = "delivery" -> IF run.k < run.subs THEN "delivery" ELSE "done"

\* the step that follows the step run.pc when it has returned
StepAfter(run) ==
    CASE run.pc = "sync" -> "fetch"
      [] run.pc = "fetch" -> "load"
      [] run.pc = "load" -> IF run.items = 0 THEN "render" ELSE "summarize"
      [] run.pc = "summarize" -> "render"
      [] run.pc = "render" -> "save"
      [] run.pc = "save" -> "subscribers"
      [] run.pc = "subscribers" -> "send"
      [] run.pc = "send" -> IF run.subs = 0 THEN "done" ELSE "delivery"
      [] run.pc = "delivery" -> IF run.k < run.subs THEN "delivery" ELSE "done"

\* (mutant) the exception is logged and the run goes on with the next step
DigestExceptContinues(run) ==
    [run EXCEPT !.pc = StepAfter(run), !.raisedAt = run.pc]

\* except Exception: the step run.pc raised; the failure is logged and the
\* coroutine returns
DigestExcept(run) ==
    [run EXCEPT !.pc = "failed", !.raisedAt = run.pc]

InitDigest ==
    /\ InitPipeline(OneRun, 0)
    /\ call = [fn |-> "run_digest_async",
               runs |-> [r \in DigestRuns |->
                           [pc |-> "sync", awaiting |-> FALSE, items |-> 0, subs |-> 0,
                            k |-> 0, log |-> <<>>, raisedAt |-> "none",
                            emailed |-> FALSE]]]

\* await fetch_all(): the call; the run is suspended until fetch_all is over
DigestFetchBegin(r) ==
    /\ call.fn = "run_digest_async"
    /\ call.runs[r].pc = "fetch" /\ ~call.runs[r].awaiting
    /\ call' = [call EXCEPT !.runs[r].awaiting = TRUE,
                            !.runs[r].log = Append(@, "fetch")]
    /\ Idle

\* fetch_all returned (ok) or raised
DigestFetchEnd(r, ok) ==
    /\ call.fn = "run_digest_async"
    /\ call.runs[r].pc = "fetch" /\ call.runs[r].awaiting
    /\ LET ret == [call.runs[r] EXCEPT !.awaiting = FALSE]
       IN call' = [call EXCEPT !.runs[r] =
                      IF ok THEN [ret EXCEPT !.pc = StepAfter(ret)]
                      ELSE DigestExcept(ret)]
    /\ Idle

\* a step that does not await: called, and returned (ok) or raised; the load
\* returns n articles, fetch_active_subscribers n subscribers, and each turn
\* of the delivery loop records one delivery
DigestStep(r, ok, n) ==
    /\ call.fn = "run_digest_async"
    /\ call.runs[r].pc \in Range(DigestSteps) \ {"fetch", "send"}
    /\ LET run == call.runs[r]
           called == [run EXCEPT !.log = Append(@, run.pc)]
           ret == [called EXCEPT !.items = IF run.pc = "load" THEN n ELSE @,
                                 !.subs = IF run.pc = "subscribers" THEN n ELSE @,
                                 !.k = IF run.pc = "delivery" THEN @ + 1 ELSE @]
       IN call' = [call EXCEPT !.runs[r] =
                      IF ok THEN [ret EXCEPT !.pc = StepAfter(ret)]
                      ELSE DigestExcept(called)]
    /\ Idle

\* send_html_email(to_list, ...): with recipients, the batch is handed to the
\* provider, which accepts it (batchOk) or raises; send_html_email logs the
\* failure and returns None either way
DigestSend(r, batchOk) ==
    /\ call.fn = "run_digest_async"
    /\ call.runs[r].pc = "send"
    /\ LET run == call.runs[r]
           ret == [run EXCEPT !.log = Append(@, "send"),
                              !.emailed = run.subs > 0 /\ batchOk]
       IN call' = [call EXCEPT !.runs[r] = [ret EXCEPT !.pc = StepAfter(ret)]]
    /\ Idle

NextDigest ==
    \E r \in DigestRuns :
        \/ DigestFetchBegin(r)
        \/ \E ok \in BOOLEAN : DigestFetchEnd(r, ok)
        \/ \E ok \in BOOLEAN, n \in {0, MaxSubs} : DigestStep(r, ok, n)
        \/ \E batchOk \in BOOLEAN : DigestSend(r, batchOk)

SpecDigest == InitDigest /\ [][NextDigest]_vars

\* send_html_email(to_list, ...).  to_list has n addresses, the k-th written
\* k; a chunk is the addresses first..last (each stripped and lower-cased,
\* which keeps their number and order).  i is the loop variable, sends the
\* calls of resend.Emails.send so far.

\* to_list[i:i + 100]
Chunk(n, i) == [first |-> i + 1, last |-> IF i + BATCH < n THEN i + BATCH ELSE n]

\* (mutant) the exception of a send leaves the function
LoopAfterSendRaises(n, i, ok) ==
    IF ok THEN [i |-> i + BATCH, done |-> i + BATCH >= n, raised |-> FALSE]
    ELSE [i |-> i, done |-> TRUE, raised |-> TRUE]

\* the loop after a send that returned (ok) or raised into "except Exception":
\* on to the next chunk, or out of range(0, len(to_list), 100)
LoopAfterSend(n, i, ok) ==
    [i |-> i + BATCH, done |-> i + BATCH >= n, raised |-> FALSE]

InitEmail ==
    /\ InitPipeline(OneRun, 0)
    /\ call \in {[fn |-> "send_html_email", n |-> n, i |-> 0, sends |-> <<>>,
                   done |-> FALSE, raised |-> FALSE] : n \in 0..MaxRecipients}

\* if not to_list: return
EmailNoRecipients ==
    /\ call.fn = "send_html_email" /\ ~call.done
    /\ call.n = 0
    /\ call' = [call EXCEPT !.done = TRUE]
    /\ Idle

\* one turn of the loop: the chunk is sent, and the send returns or raises
EmailSend(ok) ==
    /\ call.fn = "send_html_email" /\ ~call.done
    /\ call.n > 0
    /\ LET after == LoopAfterSend(call.n, call.i, ok)
       IN call' = [call EXCEPT
                     !.sends = Append(@, [chunk |-> Chunk(call.n, call.i), ok |-> ok]),
                     !.i = after.i, !.done = after.done, !.raised = after.raised]
    /\ Idle

NextEmail ==
    \/ EmailNoRecipients
    \/ \E ok \in BOOLEAN : EmailSend(ok)

SpecEmail == InitEmail /\ [][NextEmail]_vars

\* fillout_webhook and _maybe_schedule_auto_run.  Time is the clock of the
\* process in ticks; app_state is the value of webhook_last_run_iso, runs the
\* time (now) of every run that was auto-scheduled.
CooldownTicks == AUTO_RUN_COOLDOWN_MIN * 60 * TicksPerSecond

MaxClock == CooldownTicks + MaxLate

\* _now_utc_iso: isoformat(timespec="seconds") drops the fraction of a second
_now_utc_iso(t) == [sec |-> t \div TicksPerSecond]

\* datetime.fromisoformat(last_iso)
fromisoformat(iso) == iso.sec * TicksPerSecond

\* if last_dt: delta = now - last_dt; if delta < timedelta(minutes=cooldown_min)
CooldownActive(state, now) ==
    /\ state.set
    /\ now - fromisoformat(state.value) < CooldownTicks

\* _maybe_schedule_auto_run at time now: the new app_state and whether a run
\* was scheduled; get_state and set_state return (getOk, setOk) or raise
_maybe_schedule_auto_run(enabled, state, now, getOk, setOk) ==
    IF ~enabled THEN [state |-> state, scheduled |-> FALSE]
    ELSE IF ~getOk THEN [state |-> state, scheduled |-> FALSE]
    ELSE IF CooldownActive(state, now) THEN [state |-> state, scheduled |-> FALSE]
    ELSE IF ~setOk THEN [state |-> state, scheduled |-> FALSE]
    ELSE [state |-> [set |-> TRUE, value |-> _now_utc_iso(now)], scheduled |-> TRUE]

InitWebhook ==
    /\ InitPipeline(OneRun, 0)
    /\ call \in {[fn |-> "fillout_webhook", enabled |-> e, clock |-> 0,
                   app_state |-> [set |-> FALSE, value |-> _now_utc_iso(0)],
                   runs |-> <<>>] : e \in BOOLEAN}

\* time passes
WebhookTick ==
    /\ call.fn = "fillout_webhook"
    /\ call.clock < MaxClock
    /\ call' = [call EXCEPT !.clock = @ + 1]
    /\ Idle

\* one delivery of the webhook: process_webhook_payload upserts the
\* subscriber (ok) or not; if it did, _maybe_schedule_auto_run
WebhookDelivery(ok, getOk, setOk) ==
    /\ call.fn = "fillout_webhook"
    /\ LET m == _maybe_schedule_auto_run(call.enabled, call.app_state, call.clock,
                                         getOk, setOk)
       IN call' = IF ok /\ m.scheduled
                  THEN [call EXCEPT !.app_state = m.state,
                                    !.runs = Append(@, call.clock)]
                  ELSE call
    /\ Idle

NextWebhook ==
    \/ WebhookTick
    \/ \E ok, getOk, setOk \in BOOLEAN : WebhookDelivery(ok, getOk, setOk)

SpecWebhook == InitWebhook /\ [][NextWebhook]_vars

----------------------------------------------------------------------------
(* sync_from_fillout: the incremental, paginated poll of the submissions.  *)
(* pending submissions are newer than the marker; a page request is        *)
(* answered with the submissions from its offset on, or fails.             *)

US_BASE == "https://api.fillout.com/v1/api"
EU_BASE == "https://eu-api.fillout.com/v1/api"

\* _candidate_bases: the configured base, then the US and the EU base, without
\* repeats
_candidate_bases(prim) ==
    LET bases == <<prim>> \o (IF prim # US_BASE THEN <<US_BASE>> ELSE <<>>)
                          \o (IF prim # EU_BASE THEN <<EU_BASE>> ELSE <<>>)
    IN bases

\* the submissions a page request at offset is answered with
PageLen(pending, offset) ==
    IF pending <= offset THEN 0
    ELSE IF pending - offset < PAGE_LIMIT THEN pending - offset ELSE PAGE_LIMIT

\* after the while loop of a base: with any_success the marker is set to now
\* (set_state stores it, or raises) and the function returns; without, the
\* next base is tried, and after the last base RuntimeError is raised
AfterBase(c, setOk) ==
    IF c.any_success
    THEN IF setOk THEN [c EXCEPT !.marker = "now", !.pc = "done"]
         ELSE [c EXCEPT !.pc = "raised"]
    ELSE IF c.b < Len(c.bases)
    THEN [c EXCEPT !.b = @ + 1, !.offset = 0, !.last = "none"]
    ELSE [c EXCEPT !.pc = "raised"]

\* one turn of the while loop: _fetch_page answers (ok) or fails; the
\* submissions of the page are upserted (upsertOk, or upsert_subscriber raises)
SyncPage(c, ok, upsertOk) ==
    IF ~ok THEN [c EXCEPT !.last = "error", !.pc = "after"]
    ELSE LET n == PageLen(c.pending, c.offset)
             c1 == [c EXCEPT !.any_success = TRUE]
         IN IF n = 0 THEN [c1 EXCEPT !.last = "empty", !.pc = "after"]
            ELSE IF ~upsertOk THEN [c1 EXCEPT !.pc = "raised"]
            ELSE IF n < PAGE_LIMIT
            THEN [c1 EXCEPT !.upserted = @ + n, !.last = "short", !.pc = "after"]
            ELSE [c1 EXCEPT !.upserted = @ + n, !.last = "full",
                            !.offset = @ + PAGE_LIMIT]

SyncPendings ==
    {0, PAGE_LIMIT - 1} \cup {k * PAGE_LIMIT : k \in 1..MaxFullPages}

InitSync ==
    /\ InitPipeline(OneRun, 0)
    /\ call \in {[fn |-> "sync_from_fillout", pc |-> "start",
                  bases |-> _candidate_bases(prim), b |-> 1, offset |-> 0,
                  any_success |-> FALSE, pending |-> n, upserted |-> 0,
                  was |-> mk, marker |-> mk, last |-> "none"] :
                    prim \in {US_BASE, EU_BASE, "https://proxy.example/api"},
                    n \in SyncPendings,
                    mk \in {"none", "old"}}

\* last_iso = get_state("fillout_last_sync_iso"): the marker, or it raises
SyncGetState(getOk) ==
    /\ call.fn = "sync_from_fillout"
    /\ call.pc = "start"
    /\ call' = [call EXCEPT !.pc = IF getOk THEN "page" ELSE "raised"]
    /\ Idle

\* _fetch_page(base, offset) and the handling of its page
SyncFetchPage(ok, upsertOk) ==
    /\ call.fn = "sync_from_fillout"
    /\ call.pc = "page"
    /\ LET c == SyncPage(call, ok, upsertOk)
       IN call' = IF c.pc = "after" /\ ~c.any_success
                  THEN [AfterBase(c, TRUE) EXCEPT !.pc = IF @ = "after" THEN "page" ELSE @]
                  ELSE c
    /\ Idle

\* if any_success: set_state("fillout_last_sync_iso", now_iso); return
SyncSetState(setOk) ==
    /\ call.fn = "sync_from_fillout"
    /\ call.pc = "after"
    /\ call' = AfterBase(call, setOk)
    /\ Idle

NextSync ==
    \/ \E getOk \in BOOLEAN : SyncGetState(getOk)
    \/ \E ok, upsertOk \in BOOLEAN : SyncFetchPage(ok, upsertOk)
    \/ \E setOk \in BOOLEAN : SyncSetState(setOk)

SpecSync == InitSync /\ [][NextSync]_vars

NextFetchArticle ==
    \/ CallFetchArticle
    \/ \E sinkOk \in BOOLEAN : HandleArticle(sinkOk)

SpecFetchArticle == InitFetchArticle /\ [][NextFetchArticle]_vars

----------------------------------------------------------------------------
(* The request chains of all coroutines *)

Jobs == {<<t, 0>> : t \in Tasks}
        \cup UNION {{<<t, j>> : j \in DOMAIN cand[t]} : t \in Tasks}

ChainOf(job) == IF job[2] = 0 THEN src[job[1]].chain ELSE cand[job[1]][job[2]].chain

RunOf(job) == topo.runOf[job[1]]

\* the request chains that are inside "async with sem" of _http_get for netloc n
InFlight(n) == {job \in Jobs : Holding(ChainOf(job)) /\ Netloc(ChainOf(job).url) = n}

\* the candidates of run r that are inside "async with sem" of handle
InBody(r) == {job \in Jobs : /\ job[2] # 0 /\ RunOf(job) = r
                             /\ cand[job[1]][job[2]].pc = "body"}

----------------------------------------------------------------------------
\* C1: at every moment, for every host (the netloc of the URL, which is what
\* HostLimiter calls the host), at most PER_HOST_CONCURRENCY request chains
\* (listing, article and PDF chains of all sources and of all overlapping
\* runs, retries and backoff sleeps included) are in flight.
C1_PerHostLimit ==
    \A job \in Jobs :
        Holding(ChainOf(job)) =>
            Cardinality(InFlight(Netloc(ChainOf(job).url))) <= PER_HOST_CONCURRENCY

\* two overlapping runs fill the limiter of a.com, with chains of both runs in
\* flight, while a third chain waits for a permit
C1_Witness ==
    /\ topo.runOf = TwoRuns.runOf
    /\ Cardinality(InFlight("a.com")) = PER_HOST_CONCURRENCY
    /\ {RunOf(job) : job \in InFlight("a.com")} = {1, 2}
    /\ \E job \in Jobs : /\ ChainOf(job).st = "acquire"
                         /\ Netloc(ChainOf(job).url) = "a.com"

\* C2: within one fetch_all run, at most FETCH_CONCURRENCY article extractions
\* (bodies of handle) are in progress at any moment, over all its sources.
C2_GlobalLimit == \A r \in Runs : Cardinality(InBody(r)) <= FETCH_CONCURRENCY

\* one run: candidates of both sources fill the limiter and a third one waits
C2_Witness ==
    /\ topo.runOf = OneRun.runOf
    /\ Cardinality(InBody(1)) = FETCH_CONCURRENCY
    /\ {job[1] : job \in InBody(1)} = {1, 2}
    /\ \E job \in Jobs : job[2] # 0 /\ cand[job[1]][job[2]].pc = "sem"

\* C3: a call of _http_get issues at most HTTP_RETRIES + 1 attempts, whatever
\* the server answers, and once HTTP_RETRIES + 1 attempts have failed the call
\* ends without another attempt: handle's call raises, so the candidate fails
\* (or was cancelled), and process_source's call raises, so it is over or in
\* the first attempt of its next call.
C3_AttemptsBounded ==
    /\ [](\A job \in Jobs : ChainOf(job).attempts <= HTTP_RETRIES + 1)
    /\ [][\A t \in Tasks :
            (/\ src[t].chain.st = "sleep"
             /\ src[t].chain.attempts = HTTP_RETRIES + 1
             /\ src'[t] # src[t])
            => src'[t].chain.attempts <= 1]_vars
    /\ [][\A t \in Tasks : \A j \in DOMAIN cand[t] :
            (/\ cand[t][j].chain.st = "sleep"
             /\ cand[t][j].chain.attempts = HTTP_RETRIES + 1
             /\ cand'[t][j] # cand[t][j])
            => cand'[t][j].pc \in {"failed", "cancelled"}]_vars

\* a chain whose HTTP_RETRIES + 1 attempts all failed, in its last sleep
C3_Witness ==
    \E job \in Jobs : /\ job[2] # 0
                      /\ ChainOf(job).st = "sleep"
                      /\ ChainOf(job).attempts = HTTP_RETRIES + 1

\* C4 (as claimed): in a chain whose attempts all fail, the backoff delays
\* waited between successive attempts are strictly increasing.
C4_DelaysIncreasing ==
    \A job \in Jobs :
        \A a, b \in 1..Len(ChainOf(job).delays) :
            (a < b /\ b <= HTTP_RETRIES) => ChainOf(job).delays[a] < ChainOf(job).delays[b]

\* C5: an attempt is followed by a backoff sleep or by another attempt only if
\* its status is one of 429, 500, 502, 503, 504 or it raised; any other
\* response ends the chain at once.
C5_RetryOnlyTransient ==
    \A job \in Jobs :
        LET ch == ChainOf(job)
        IN (ch.st = "sleep" \/ ch.attempts > 1 \/ ch.delays # <<>>)
           => \/ ch.last.kind = "exc"
              \/ ch.last.kind = "resp" /\ ch.last.status \in {429, 500, 502, 503, 504}

\* a chain that is retried after a 503, and one that sleeps after an exception
C5_Witness ==
    /\ \E job \in Jobs : /\ ChainOf(job).st = "get" /\ ChainOf(job).attempts = 2
                         /\ ChainOf(job).last = Resp(503, "none")
    /\ \E job \in Jobs : ChainOf(job).st = "sleep" /\ ChainOf(job).last = Exc

C7_ListingFailureSkips ==
    /\ \A t \in Tasks :
          (src[t].first200 = NoUrl /\ src[t].pc \notin {"start", "listing", "cancelled"})
          => /\ src[t].pc = "returned"
             /\ cand[t] = <<>>
             /\ src[t].links = <<>>
    /\ \A r \in Runs : fetch[r] = "raised" => \E t \in TasksOf(r) : src[t].pc = "raised"

\* the first source was skipped after all its URLs failed; the second source
\* persisted its candidate and the run finished
C7_Witness ==
    /\ topo.runOf = OneRun.runOf
    /\ fetch[1] = "finished"
    /\ src[1].pc = "returned" /\ src[1].first200 = NoUrl /\ src[1].ui = Len(Urls(Cfg(1)))
    /\ Len(cand[2]) = 1 /\ cand[2][1].pc = "persisted"

\* C8 (as claimed): the first listing response with status 200 becomes the base
\* page and no listing request is issued after it.
C8_First200Wins ==
    \A t \in Tasks :
        src[t].first200 # NoUrl =>
            /\ src[t].base_url = src[t].first200
            /\ src[t].chain.st = "none"

\* C9 (as claimed): after a 403 on the primary profile and a failed retry on
\* the secondary profile, discovery leaves the URL only after a 200 or after
\* every AMP variant of the URL has been attempted.
C9_AllAmpVariantsTried ==
    [][\A t \in Tasks :
          (/\ src[t].pc = "listing"
           /\ src[t].phase \in {"secondary", "amp"}
           /\ src'[t].pc # "cancelled"
           /\ (src'[t].pc # "listing" \/ src'[t].ui # src[t].ui))
          => \/ src'[t].first200 # NoUrl
             \/ /\ src[t].phase = "amp"
                /\ src[t].ai = Len(_amp_variants(Urls(Cfg(t))[src[t].ui]))]_vars

\* C10 (as claimed): with the registry loaded, fetch_all never raises.
C10_FetchAllNeverRaises == \A r \in Runs : fetch[r] # "raised"

\* C11 (as claimed): under fair scheduling, with every attempt and every sink
\* call ending, eventually fetch_all is over in every run and every candidate
\* link has reached one of the outcomes persisted, skipped, failed.
C11_EveryCandidateEnds ==
    <>[](/\ \A r \in Runs : fetch[r] # "running"
         /\ \A t \in Tasks : \A j \in DOMAIN cand[t] : cand[t][j].pc \in Outcomes)

\* the fragment-free form of a link: what precedes its first fragment token
NoFragment(u) ==
    IF \E k \in 1..Len(u) : u[k] \in FragTokens
    THEN SubSeq(u, 1, (CHOOSE k \in 1..Len(u) :
                          /\ u[k] \in FragTokens
                          /\ \A m \in 1..(k - 1) : u[m] \notin FragTokens) - 1)
    ELSE u

\* the position in links of the first link whose fragment-free form is u
FirstPos(links, u) ==
    CHOOSE k \in 1..Len(links) :
        /\ NoFragment(links[k]) = u
        /\ \A m \in 1..(k - 1) : NoFragment(links[m]) # u

Parsed == call.fn = "_parse_listing_html" /\ call.done

\* the URL of the k-th anchor of the page, without its fragment
AnchorUrl(k) == NoFragment(urljoin(call.base_url, call.page[k].href))

\* the first anchor of the page, or the first one under <article>, with URL u
FirstAnchor(u) ==
    CHOOSE k \in 1..Len(call.page) :
        AnchorUrl(k) = u /\ \A m \in 1..(k - 1) : AnchorUrl(m) # u

UnderArticle(u) == \E k \in 1..Len(call.page) : call.page[k].article /\ AnchorUrl(k) = u

FirstUnderArticle(u) ==
    CHOOSE k \in 1..Len(call.page) :
        /\ call.page[k].article /\ AnchorUrl(k) = u
        /\ \A m \in 1..(k - 1) : ~(call.page[m].article /\ AnchorUrl(m) = u)

\* u has a non-English path segment: such a token followed by a path token
HasNonEnglishSegment(u) ==
    \E k \in 1..(Len(u) - 1) :
        u[k] \in NON_EN_PATH_SEGMENTS /\ u[k + 1] \notin NonPathTokens

MatchesAllow(u) ==
    \E k \in 1..Len(call.cfg.allow_substr) : Contains(u, call.cfg.allow_substr[k])

MatchesDeny(u) ==
    \/ \E k \in 1..Len(call.cfg.deny_substr) : Contains(u, call.cfg.deny_substr[k])
    \/ \E d \in DENY_ALWAYS : Contains(u, d)
    \/ HasNonEnglishSegment(u)

\* the URLs of the anchors that match an allow-substring and no deny-substring
Matching ==
    {u \in {AnchorUrl(k) : k \in 1..Len(call.page)} :
        u # <<>> /\ MatchesAllow(u) /\ ~MatchesDeny(u)}

OtherHost(u) == call.cfg.same_host_only /\ Netloc(u) # Netloc(call.base_url)

IsLanding(u) == Last(RStripSlash(u)) \in drop_suffixes

\* discovery order: the anchors under <article> in document order, then the rest
Rank(u) ==
    IF UnderArticle(u) THEN FirstUnderArticle(u) ELSE Len(call.page) + FirstAnchor(u)

C14_ReturnedPassAllFilters ==
    Parsed =>
        \A k \in 1..Len(call.res) :
            LET u == call.res[k]
            IN /\ ~OtherHost(u)
               /\ ~HasNonEnglishSegment(u)
               /\ call.cfg.allow_substr # <<>> => MatchesAllow(u)
               /\ ~MatchesDeny(u)
               /\ ~IsLanding(u)

\* a page with a link to another host, a French one, a denied one and a
\* landing page, of which only the plain article link comes back
C14_Witness ==
    /\ Parsed
    /\ call.cfg.same_host_only /\ call.cfg.allow_substr # <<>>
    /\ \E k \in 1..Len(call.page) : OtherHost(AnchorUrl(k))
    /\ \E k \in 1..Len(call.page) : IsLanding(AnchorUrl(k)) \/ HasNonEnglishSegment(AnchorUrl(k))
    /\ Len(call.res) = 1

\* C15: discovery returns at most max_links URLs (12 when the registry gives
\* none), and they are the first max_links of the list that the same page
\* gives when max_links is no limit, in the same order.
C15_AtMostMaxLinks ==
    Parsed =>
        LET full == _parse_listing_html(call.page, call.base_url,
                                        [call.cfg EXCEPT !.max_links = 2 * Len(call.page)])
        IN /\ Len(call.res) <= call.cfg.max_links
           /\ Len(call.res) = IF Len(full) < call.cfg.max_links
                              THEN Len(full) ELSE call.cfg.max_links
           /\ \A k \in 1..Len(call.res) : call.res[k] = full[k]

\* the long page under a source without max_links: 12 of its 14 links come back
C15_Witness ==
    /\ Parsed
    /\ call.page = LongPage
    /\ call.cfg.max_links = 12
    /\ Len(call.res) = 12
    /\ call.res[1] = <<"https:", "a.com", "/doc", "/n3">>
    /\ call.res[12] = <<"https:", "a.com", "/doc", "/n12">>

\* _fetch_article_page has returned
Fetched == call.fn = "_fetch_article_page" /\ call.done

\* ... for a page that answered 200 and is in English
PastFirstGates ==
    /\ Fetched
    /\ call.page.status = 200
    /\ call.page.lang \in {<<>>, <<"en">>, <<"en", "-GB">>}

\* C16: with last_week_only on, a candidate whose date is unresolved or more
\* than MAX_AGE_DAYS (7) days old at the check is skipped, and one whose date
\* is within that window is not skipped for its age: 8 days old is skipped,
\* 6 days old with a long enough text is kept.
C16_RecencyGate ==
    (PastFirstGates /\ call.cfg.last_week_only) =>
        LET dt == call.res.dt
        IN /\ (~dt.known \/ dt.age > 7) => ~call.res.kept /\ call.res.why = "recency"
           /\ (dt.known /\ dt.age <= 7) => call.res.why # "recency"
           /\ (dt.known /\ dt.age = 8) => ~call.res.kept
           /\ (dt.known /\ dt.age = 6 /\ call.page.textlen >= MIN_TEXT_LENGTH)
                 => call.res.kept /\ call.res.published_at = dt

\* a page dated 8 days ago in its meta tags, long enough to be kept, is skipped
C16_Witness ==
    /\ PastFirstGates /\ call.cfg.last_week_only
    /\ call.page.meta = At(8) /\ call.page.textlen >= MIN_TEXT_LENGTH
    /\ call.res.dt.known /\ call.res.dt.age = 8
    /\ ~call.res.kept /\ call.res.why = "recency"

\* C17: an article on an evergreen host (www.iso.org, iso.org) whose page has
\* no date in its meta tags, its JSON-LD or its text, and whose text is long
\* enough, is kept under the default configuration, with the time of the fetch
\* as its publication time.
C17_EvergreenUndatedKept ==
    (/\ PastFirstGates
     /\ call.page.evergreen
     /\ ~call.page.meta.known /\ ~call.page.ld.known /\ ~call.page.visible.known
     /\ call.page.textlen >= MIN_TEXT_LENGTH
     /\ call.cfg.last_week_only /\ call.cfg.pdf_chase)
    => call.res.kept /\ call.res.published_at = Now

\* C18: the date of a page without a date in its visible text is the first
\* that is found of (a) the meta tags, (b) JSON-LD, (c) the Last-Modified
\* header off the evergreen hosts, (d) the date in the URL on every host; it
\* is unresolved only if all four find none.
C18_DateSourceOrder ==
    (/\ PastFirstGates
     /\ ~call.page.visible.known)
    => LET pg == call.page
           expected ==
               IF pg.meta.known THEN From(pg.meta, "meta")
               ELSE IF pg.ld.known THEN From(pg.ld, "ld")
               ELSE IF ~pg.evergreen /\ pg.last_modified.known
                    THEN From(pg.last_modified, "header")
               ELSE From(pg.url_date, "url")
       IN call.res.dt = expected

\* C19: on an evergreen host the Last-Modified header, of the article or of
\* its PDF, is never the date of the article.
C19_EvergreenNoHeaderDate ==
    (PastFirstGates /\ call.page.evergreen) =>
        /\ call.res.dt.from \notin {"header", "pdf_header"}
        /\ call.res.published_at.from \notin {"header", "pdf_header"}
        /\ (call.res.kept /\ ~call.page.meta.known /\ ~call.page.ld.known
               /\ ~call.page.visible.known) => call.res.published_at = Now

\* an undated article on an evergreen host, itself and its PDF both served
\* with Last-Modified, kept with the PDF's text and the time of the fetch
C19_Witness ==
    /\ PastFirstGates /\ call.page.evergreen
    /\ ~call.res.dt.known
    /\ call.page.last_modified.known
    /\ call.page.pdf.last_modified.known
    /\ call.res.kept /\ call.res.pdf_requested
    /\ call.res.textlen = Joined(call.page.textlen, call.page.pdf.textlen)
    /\ call.res.published_at = Now

\* C20: when the text of an article that passed the gates before is shorter
\* than MIN_TEXT_LENGTH, PDF chasing is on, and the first .pdf link of the
\* page answers 200 as application/pdf with text in it, that text is appended
\* to the article's after a blank line, and an article of 200 characters with
\* a PDF of 3000 is kept.
C20_PdfTextAppended ==
    (/\ PastFirstGates
     /\ call.res.why \in {"none", "short"}
     /\ call.page.textlen < MIN_TEXT_LENGTH
     /\ call.cfg.pdf_chase
     /\ call.page.pdf.found
     /\ call.page.pdf.status = 200 /\ call.page.pdf.is_pdf
     /\ call.page.pdf.textlen = 3000)
    => /\ call.res.kept
       /\ call.res.textlen = Joined(call.page.textlen, 3000)

\* handle is over for the article
Handled == call.fn = "_fetch_article_page" /\ call.outcome # "pending"

\* the text the article ends with, when the PDF request did not raise
FinalTextLen ==
    LET pg == call.page
    IN IF /\ pg.textlen < MIN_TEXT_LENGTH /\ call.cfg.pdf_chase
          /\ pg.pdf.found /\ pg.pdf.status = 200 /\ pg.pdf.is_pdf /\ pg.pdf.textlen > 0
          /\ (~call.cfg.last_week_only
                \/ (pg.pdf.last_modified.known /\ pg.pdf.last_modified.age <= 7))
       THEN Joined(pg.textlen, pg.pdf.textlen)
       ELSE pg.textlen

\* C21: no record whose final text, the page's with what was appended of the
\* PDF's, is shorter than MIN_TEXT_LENGTH (600) goes to the sink, whatever
\* the PDF attempt gave.
C21_NoShortRecordSent ==
    /\ \A k \in 1..Len(call.sent) : call.sent[k].raw_text >= 600
    /\ Handled =>
          /\ \A k \in 1..Len(call.sent) : call.sent[k].raw_text = FinalTextLen
          /\ (FinalTextLen < 600) => (call.sent = <<>> /\ call.outcome # "persisted")

\* a page of 200 characters and a PDF of 300: the 502 characters are skipped
C21_Witness ==
    /\ Handled
    /\ call.page.textlen = 200 /\ call.page.pdf.textlen = 300
    /\ call.res.pdf_requested
    /\ FinalTextLen = 502
    /\ call.outcome = "skipped" /\ call.sent = <<>>

\* the PDF step of the article was entered and failed: the request raised, or
\* the response was not a 200 or not a PDF, or no text came out of the parser
PdfStepFailed ==
    LET pg == call.page
    IN /\ PastFirstGates
       /\ call.res.why # "recency"
       /\ pg.textlen < MIN_TEXT_LENGTH /\ call.cfg.pdf_chase /\ pg.pdf.found
       /\ (pg.pdf.raises \/ pg.pdf.status # 200 \/ ~pg.pdf.is_pdf \/ pg.pdf.textlen = 0)

\* C22: a failure of the PDF step adds no text and is not fatal to the
\* article: the minimum-length gate decides it on the page's own text (here
\* too short: skipped), and handle does not end it as failed.
C22_PdfFailureNotFatal ==
    (Handled /\ PdfStepFailed) =>
        /\ call.res.why = "short"
        /\ call.outcome = "skipped"

\* C23: when the page gave no date and the host is not evergreen, and the PDF
\* response that was fetched carries Last-Modified, the record that is
\* persisted has that time as its publication time.
C23_PdfHeaderDates ==
    (/\ Handled /\ PastFirstGates
     /\ ~call.res.dt.known
     /\ ~call.page.evergreen
     /\ call.res.pdf_requested /\ ~call.page.pdf.raises
     /\ call.page.pdf.last_modified.known
     /\ call.outcome = "persisted")
    => /\ Len(call.sent) = 1
       /\ call.sent[1].published_at.known
       /\ call.sent[1].published_at.age = call.page.pdf.last_modified.age
       /\ call.sent[1].published_at.from = "pdf_header"

\* an undated article of 200 characters with a PDF of 3000 last modified 8
\* days ago, with last_week_only off: persisted as of 8 days ago
C23_Witness ==
    /\ Handled /\ PastFirstGates
    /\ ~call.res.dt.known /\ ~call.page.evergreen
    /\ call.page.textlen = 200 /\ call.page.pdf.textlen = 3000
    /\ call.page.pdf.last_modified = At(8)
    /\ ~call.cfg.last_week_only
    /\ call.outcome = "persisted"
    /\ call.sent[1].published_at = From(At(8), "pdf_header")
    /\ call.sent[1].raw_text = 3202

\* the items of URL u that upsert_article stored, in the order of the calls
Stored(u) ==
    SelectSeq(call.sent, LAMBDA e : e.ok /\ e.item.url = u)

\* C24: after any sequence of upserts the table holds at most one record per
\* URL, and the record of a URL carries the title, the text and the date of
\* the last upsert of that URL: the same URL upserted twice with different
\* titles leaves one record, with the second title.
C24_OneRecordPerUrl ==
    call.fn = "upsert_article" =>
        /\ \A r1, r2 \in sink : r1.url = r2.url => r1 = r2
        /\ \A u \in {a.url : a \in UpsertArts} :
              LET st == Stored(u)
                  rows == {r \in sink : r.url = u}
              IN IF st = <<>> THEN rows = {}
                 ELSE /\ Cardinality(rows) = 1
                      /\ \A r \in rows :
                            /\ r.title = Last(st).item.title
                            /\ r.raw_text = Last(st).item.raw_text
                            /\ r.published_at = [iso |-> Last(st).item.published_at.age]

\* the same URL upserted with title T1 and then with T2: one record, titled T2
C24_Witness ==
    /\ call.fn = "upsert_article"
    /\ Len(call.sent) = 2
    /\ call.sent[1].ok /\ call.sent[2].ok
    /\ call.sent[1].item.url = call.sent[2].item.url
    /\ call.sent[1].item.title = "T1" /\ call.sent[2].item.title = "T2"
    /\ Cardinality(sink) = 1
    /\ \A r \in sink : r.title = "T2"

\* C25: the fingerprint sent to the sink depends on the URL alone: two items
\* of the same URL have the same fingerprint whatever their title, text and
\* date, and two items of different URLs have different fingerprints although
\* title, text and date are the same.
C25_FingerprintOfUrlOnly ==
    call.fn = "upsert_article" =>
        \A i, j \in 1..Len(call.sent) :
            (call.sent[i].item.url = call.sent[j].item.url)
               <=> (call.sent[i].item.hash = call.sent[j].item.hash)

\* the same URL sent with another title, text and date, and the same
\* fingerprint; and another URL with the first content and another fingerprint
C25_Witness ==
    /\ call.fn = "upsert_article"
    /\ Len(call.sent) = 3
    /\ LET a == call.sent[1].item
           b == call.sent[2].item
           c == call.sent[3].item
       IN /\ a.url = b.url /\ a.title # b.title /\ a.raw_text # b.raw_text
          /\ a.published_at # b.published_at
          /\ a.hash = b.hash
          /\ c.url # a.url /\ c.title = a.title /\ c.raw_text = a.raw_text
          /\ c.published_at = a.published_at
          /\ c.hash # a.hash

\* the requests inside "async with sem" whose URL satisfies Same
HeldWith(Same(_)) == {k \in 1..Len(call.held) : Same(call.held[k])}

\* C26: the registry holds one limiter for each host requested since the
\* start, and no other; the limiter made at the first request of a host serves
\* every later one (its permits are those not taken by the requests of that
\* host in progress), and no entry is removed or replaced.
C26_RegistryOnlyGrows ==
    /\ [](call.fn = "limiter" =>
            /\ DOMAIN locks = {u[2] : u \in call.seen}
            /\ \A n \in DOMAIN locks :
                  locks[n] = PER_HOST_CONCURRENCY
                               - Cardinality(HeldWith(LAMBDA h : h[2] = n)))
    /\ [][DOMAIN locks \subseteq DOMAIN locks']_vars

\* two hosts requested, two requests of a.com in progress: two limiters, and
\* that of a.com without a free permit
C26_Witness ==
    /\ call.fn = "limiter"
    /\ DOMAIN locks = {"a.com", "b.org"}
    /\ Cardinality(HeldWith(LAMBDA h : h[2] = "a.com")) = 2
    /\ locks["a.com"] = 0 /\ locks["b.org"] = PER_HOST_CONCURRENCY

\* C27 (as claimed): two URLs share a limiter if and only if they have the
\* same origin, scheme and host: the permits free for a URL are those not
\* taken by the requests of its origin in progress.
C27_SharedIffSameOrigin ==
    call.fn = "limiter" =>
        \A v \in call.seen :
            locks[host(v)] = PER_HOST_CONCURRENCY
                - Cardinality(HeldWith(LAMBDA h : h[1] = v[1] /\ h[2] = v[2]))

\* C27 (amended): two URLs share a limiter if and only if they have the same
\* netloc, whatever their scheme, path and query: the permits free for a URL
\* are those not taken by the requests of its netloc in progress.
C27_SharedIffSameNetloc ==
    call.fn = "limiter" =>
        \A v \in call.seen :
            locks[host(v)] = PER_HOST_CONCURRENCY
                - Cardinality(HeldWith(LAMBDA h : h[2] = v[2]))

\* requests of http://a.com/x and https://a.com/y?q=1 in progress leave
\* neither a permit, and b.org has both of its own
C27_Witness ==
    /\ call.fn = "limiter"
    /\ call.held = << <<"http:", "a.com", "/x">>, <<"https:", "a.com", "/y", "?q=1">> >>
    /\ <<"https:", "b.org", "/x">> \in call.seen
    /\ locks[host(<<"https:", "a.com", "/x">>)] = 0
    /\ locks[host(<<"https:", "b.org", "/x">>)] = PER_HOST_CONCURRENCY

\* the place of a step in the order of the run
StepRank(step) == CHOOSE k \in 1..Len(DigestSteps) : DigestSteps[k] = step

\* C28: in one digest run the steps are called in the order subscriber sync,
\* fetch, load, summarize, render, save digest, send email, record
\* deliveries, each after the one before it has returned: no step is called
\* while the fetch is awaited, no email is sent before the digest is saved,
\* and no delivery is recorded before the send.
C28_StepsInOrder ==
    call.fn = "run_digest_async" =>
        \A r \in DigestRuns :
            LET log == call.runs[r].log
                Before(a, b) == \A j \in 1..Len(log) :
                                   log[j] = b => \E i \in 1..(j - 1) : log[i] = a
            IN /\ \A i, j \in 1..Len(log) :
                     i < j => \/ StepRank(log[i]) < StepRank(log[j])
                              \/ log[i] = "delivery" /\ log[j] = "delivery"
               /\ Before("sync", "fetch") /\ Before("fetch", "load")
               /\ Before("load", "render") /\ Before("render", "save")
               /\ Before("save", "send") /\ Before("send", "delivery")
               /\ call.runs[r].awaiting => Last(log) = "fetch"

\* a run that went through every step and recorded its two deliveries, while
\* the other run is awaiting its fetch
C28_Witness ==
    /\ call.fn = "run_digest_async"
    /\ call.runs[1].pc = "done"
    /\ call.runs[1].log = <<"sync", "fetch", "load", "summarize", "render", "save",
                            "subscribers", "send", "delivery", "delivery">>
    /\ call.runs[2].awaiting

\* C29: send_html_email sends the recipients in batches of at most 100, in
\* list order (the k-th batch is the addresses 100(k-1)+1 .. 100k, the last
\* one up to the end of the list); after a batch whose send failed every later
\* batch is still sent, and the function returns without raising.
C29_BatchesOfHundred ==
    call.fn = "send_html_email" =>
        /\ \A k \in 1..Len(call.sends) :
              LET c == call.sends[k].chunk
              IN /\ c.first = 100 * (k - 1) + 1
                 /\ c.last = IF 100 * k < call.n THEN 100 * k ELSE call.n
                 /\ c.first <= c.last /\ c.last - c.first + 1 <= 100
        /\ call.done =>
              /\ ~call.raised
              /\ 100 * Len(call.sends) >= call.n
              /\ 100 * (Len(call.sends) - 1) < call.n \/ call.sends = <<>>

\* 250 recipients: the first send fails, the batches 101..200 and 201..250
\* are sent all the same, and the function returns
C29_Witness ==
    /\ call.fn = "send_html_email" /\ call.done /\ ~call.raised
    /\ call.n = 250
    /\ Len(call.sends) = 3
    /\ ~call.sends[1].ok /\ call.sends[2].ok /\ call.sends[3].ok
    /\ call.sends[2].chunk = [first |-> 101, last |-> 200]
    /\ call.sends[3].chunk = [first |-> 201, last |-> 250]

\* C30: with TRIGGER_ON_SUBSCRIBE on, any two auto-scheduled runs are at least
\* AUTO_RUN_COOLDOWN_MIN minutes apart; with it off no run is auto-scheduled.
C30_OncePerCooldown ==
    call.fn = "fillout_webhook" =>
        /\ ~call.enabled => call.runs = <<>>
        /\ \A i, j \in 1..Len(call.runs) :
              i < j => call.runs[j] - call.runs[i]
                         >= AUTO_RUN_COOLDOWN_MIN * 60 * TicksPerSecond

\* C31: the gates of a candidate are evaluated in the order status 200,
\* language (declared English, or not declared), recency, minimum length,
\* and the first that rejects ends the candidate: one rejected for its
\* status, its language or its date has no PDF request and no upsert.
C31_GatesInOrder ==
    (call.fn = "_fetch_article_page" /\ call.done) =>
        LET pg == call.page
            wrongStatus == pg.status # 200
            wrongLang == pg.lang # <<>> /\ pg.lang[1] # "en"
            stale == call.cfg.last_week_only
                       /\ (~call.res.dt.known \/ call.res.dt.age > 7)
        IN /\ wrongStatus => call.res.why = "status"
           /\ (~wrongStatus /\ wrongLang) => call.res.why = "lang"
           /\ (~wrongStatus /\ ~wrongLang /\ stale) => call.res.why = "recency"
           /\ (~wrongStatus /\ ~wrongLang /\ ~stale)
                 => call.res.why \in {"short", "raised", "none"}
           /\ call.res.why \in {"status", "lang", "recency"} =>
                 /\ ~call.res.pdf_requested
                 /\ call.sent = <<>>
                 /\ call.outcome \in {"pending", "skipped"}

\* a page in French, dated 8 days ago, of 200 characters with a PDF behind it:
\* skipped for its language, with no PDF request and nothing sent
C31_Witness ==
    /\ Handled
    /\ call.page.status = 200 /\ call.page.lang = <<"fr">>
    /\ call.page.meta = At(8) /\ call.cfg.last_week_only
    /\ call.page.textlen = 200 /\ call.page.pdf.found /\ call.cfg.pdf_chase
    /\ call.res.why = "lang"
    /\ ~call.res.pdf_requested /\ call.sent = <<>> /\ call.outcome = "skipped"


\* C32: when two digest runs overlap in one process (two /run-now requests
\* before the first finished), the article extractions in progress over all
\* runs together never exceed FETCH_CONCURRENCY.
C32_SystemWideLimit ==
    Cardinality(UNION {InBody(r) : r \in Runs}) <= FETCH_CONCURRENCY


\* C33: the limiters are taken in one order.  A handle waits for the global
\* permit holding nothing, and requests (and so takes a per-host permit) only
\* inside the global one; a process_source requests its listing pages before it
\* starts any handle and takes per-host permits only; a chain that holds a
\* per-host permit is in its request or its backoff sleep and waits for no
\* permit.  So a coroutine blocked on a limiter always waits for coroutines
\* that are not blocked, and waiting cannot be circular.
C33_LimiterOrder ==
    /\ \A t \in Tasks : \A j \in DOMAIN cand[t] :
          /\ cand[t][j].pc = "sem" => cand[t][j].chain.st = "none"
          /\ cand[t][j].chain.st # "none" => cand[t][j].pc = "body"
    /\ \A t \in Tasks : src[t].chain.st # "none" => cand[t] = <<>>
    /\ \A job \in Jobs :
          (ChainOf(job).st = "acquire" /\ ~HostFree(locks, ChainOf(job).url)) =>
             /\ Cardinality(InFlight(host(ChainOf(job).url))) = PER_HOST_CONCURRENCY
             /\ job \notin InFlight(host(ChainOf(job).url))
    /\ \A job \in Jobs :
          (job[2] # 0 /\ cand[job[1]][job[2]].pc = "sem" /\ sem[RunOf(job)] = 0) =>
             /\ Cardinality(InBody(RunOf(job))) = FETCH_CONCURRENCY
             /\ \A other \in InBody(RunOf(job)) : ChainOf(other).st \in {"acquire", "get", "sleep"}

\* two runs on one host: a handle holds the global permit of its run and waits
\* for the per-host permit, both of which are held by chains in a request or a
\* backoff sleep
C33_Witness ==
    \E job \in Jobs :
        /\ job[2] # 0
        /\ cand[job[1]][job[2]].pc = "body"
        /\ ChainOf(job).st = "acquire"
        /\ ~HostFree(locks, ChainOf(job).url)
        /\ sem[RunOf(job)] < FETCH_CONCURRENCY
        /\ \E h1, h2 \in InFlight(host(ChainOf(job).url)) :
              /\ h1 # h2
              /\ ChainOf(h1).st = "get"
              /\ ChainOf(h2).st = "sleep"


\* the run r is over: fetch_all returned or raised and none of its coroutines
\* is left running
RunEnded(r) ==
    /\ fetch[r] # "running"
    /\ \A t \in TasksOf(r) :
          /\ ~SrcLive(t)
          /\ \A j \in DOMAIN cand[t] : Over(cand[t][j])

\* C34: every permit is given back on every exit path (return, raise,
\* cancellation): a coroutine that is over holds none, a host whose limiter has
\* no chain in progress has all PER_HOST_CONCURRENCY permits free, and when a
\* run is over its global limiter has all FETCH_CONCURRENCY permits free.
C34_PermitsReturned ==
    /\ \A t \in Tasks :
          /\ ~SrcLive(t) => src[t].chain.st \notin {"acquire", "get", "sleep"}
          /\ \A j \in DOMAIN cand[t] :
                Over(cand[t][j]) => cand[t][j].chain.st \notin {"acquire", "get", "sleep"}
    /\ \A n \in DOMAIN locks : InFlight(n) = {} => locks[n] = PER_HOST_CONCURRENCY
    /\ \A r \in Runs : RunEnded(r) => sem[r] = FETCH_CONCURRENCY

\* a run ended by an exception: one candidate had failed, one was
\* cancelled, and all permits of the run and of the hosts are free again
C34_Witness ==
    \E r \in Runs :
        /\ RunEnded(r)
        /\ fetch[r] = "raised"
        /\ \E t \in TasksOf(r) : \E j \in DOMAIN cand[t] : cand[t][j].pc = "cancelled"
        /\ \E t \in TasksOf(r) : \E j \in DOMAIN cand[t] : cand[t][j].pc = "failed"
        /\ sem[r] = FETCH_CONCURRENCY
        /\ DOMAIN locks # {}
        /\ \A n \in DOMAIN locks : locks[n] = PER_HOST_CONCURRENCY


\* C35: a chain holds its per-host permit without interruption from before
\* its first attempt until _http_get returns or raises: through every attempt
\* and every backoff sleep, the sleep after the last failed attempt included,
\* the host's free permits are PER_HOST_CONCURRENCY less the chains between
\* their first attempt and their end, and no other chain gets that permit.
C35_PermitHeldThroughChain ==
    /\ \A job \in Jobs :
          ChainOf(job).attempts > 0 =>
             /\ ChainOf(job).st \in {"get", "sleep"}
             /\ host(ChainOf(job).url) \in DOMAIN locks
    /\ \A n \in DOMAIN locks :
          /\ locks[n] >= 0
          /\ locks[n] + Cardinality({job \in Jobs : /\ ChainOf(job).attempts > 0
                                                    /\ host(ChainOf(job).url) = n})
                = PER_HOST_CONCURRENCY

\* a chain sleeps after its last failed attempt, still holding its permit,
\* while another chain waits for a permit of the same host
C35_Witness ==
    \E job, other \in Jobs :
        /\ ChainOf(job).st = "sleep"
        /\ ChainOf(job).i = HTTP_RETRIES
        /\ ChainOf(job).attempts = HTTP_RETRIES + 1
        /\ ChainOf(other).st = "acquire"
        /\ host(ChainOf(other).url) = host(ChainOf(job).url)
        /\ locks[host(ChainOf(job).url)] = 0


\* C36: with last_week_only on, every record handed to upsert_article carries
\* a publish time that was resolved from the page (meta tags, JSON-LD, visible
\* text), the article response's Last-Modified header or the URL, and that is
\* at most MAX_AGE_DAYS old at the recency gate; a record whose publish time is
\* the time of the fetch or the PDF's Last-Modified comes from a source with
\* last_week_only off.
C36_RecentRecordsCarryResolvedDate ==
    (call.fn = "_fetch_article_page" /\ call.done /\ call.sent # <<>>) =>
        LET p == call.sent[1].published_at
        IN /\ call.cfg.last_week_only =>
                /\ p.known
                /\ p.age <= MAX_AGE_DAYS
                /\ p.from \in {"meta", "ld", "visible", "header", "url"}
                /\ p = call.res.dt
           /\ p.from \in {"now", "pdf_header"} => ~call.cfg.last_week_only

\* last_week_only on: a short page dated 6 days ago whose PDF (with its own
\* Last-Modified) was appended is sent with the page's date
C36_Witness ==
    /\ call.fn = "_fetch_article_page" /\ call.done /\ call.sent # <<>>
    /\ call.cfg.last_week_only
    /\ call.res.pdf_requested
    /\ call.page.textlen < MIN_TEXT_LENGTH
    /\ call.page.pdf.last_modified.known
    /\ call.sent[1].published_at.known
    /\ call.sent[1].published_at.age <= MAX_AGE_DAYS
    /\ call.sent[1].published_at.from \in {"meta", "ld", "visible", "header", "url"}


\* C37: run_digest_async never lets an exception out: when a step raises
\* (the subscriber sync with all its bases failing, the fetch, the load, ...)
\* the run ends there, the step that raised is the last one it called, and the
\* coroutine returns.
C37_RunNeverRaises ==
    call.fn = "run_digest_async" =>
        \A r \in DigestRuns :
            LET run == call.runs[r]
            IN /\ run.pc \in Range(DigestSteps) \cup {"done", "failed"}
               /\ run.raisedAt # "none" =>
                     /\ run.pc = "failed"
                     /\ ~run.awaiting
                     /\ Last(run.log) = run.raisedAt
                     /\ \A i \in 1..(Len(run.log) - 1) :
                           StepRank(run.log[i]) <= StepRank(run.raisedAt)
               /\ run.pc = "failed" => run.raisedAt # "none"

\* the subscriber sync of one run raised: the run called nothing else; the
\* fetch of the other run raised after its sync
C37_Witness ==
    /\ call.fn = "run_digest_async"
    /\ call.runs[1].raisedAt = "sync" /\ call.runs[1].log = <<"sync">>
    /\ call.runs[1].pc = "failed"
    /\ call.runs[2].raisedAt = "fetch" /\ call.runs[2].log = <<"sync", "fetch">>
    /\ call.runs[2].pc = "failed"

\* C38: a delivery row with status 'sent' is recorded for a subscriber only if
\* the email batch with that subscriber's address was sent without error in
\* the same run.
C38_DeliveryOnlyIfSent ==
    call.fn = "run_digest_async" =>
        \A r \in DigestRuns : call.runs[r].k > 0 => call.runs[r].emailed


\* C39: sync_from_fillout moves the marker fillout_last_sync_iso only when
\* every page of the base in use was fetched without error, up to the final
\* short or empty page; when a page fails in the middle of the pagination, or
\* all bases fail, the marker keeps its value.
C39_MarkerOnlyAfterFullPagination ==
    call.fn = "sync_from_fillout" =>
        /\ call.marker # call.was => call.last \in {"short", "empty"}
        /\ (call.pc \in {"done", "raised"} /\ call.last = "error") =>
              call.marker = call.was

====
